---- MODULE Spec2Model ----
(***************************************************************************)
(* Interactive site-layout planner: the overlay manipulation engine of     *)
(* MapLayout (drag / resize / rotate / fix of overlays anchored to a       *)
(* geographic point), the polygon drawing state machines of MapLayout and  *)
(* LayoutEditor, and the layout list of PlannerApp that hosts them.        *)
(*                                                                         *)
(* React is modelled at the granularity of one event: an action is the     *)
(* event handler(s) the event reaches, the state updates they queue, the   *)
(* re-render and the effects of that render (listener registration).       *)
(***************************************************************************)
EXTENDS Integers, Sequences, FiniteSets, TLC

(***************************************************************************)
(* Bounds of the model.                                                    *)
(***************************************************************************)
MaxOverlays == 1      \* overlays added to the map
MaxCoord == 2         \* anchor pixels stay in 0..MaxCoord on both axes
MaxScale == 2         \* finite scales above MaxScale are not explored
MaxPoints == 3        \* points a drawing buffer holds
MaxLayouts == 1       \* layouts drawn on the map
MaxPlots == 2         \* plots drawn in the editor
MaxTimers == 1        \* pending save timers
MaxShapes == 2        \* shapes on a shape canvas
MaxCanvasPoints == 1  \* pencil points on a shape canvas
MaxRecords == 2       \* layouts in the list of the data layer
MaxLayoutId == 4      \* largest layout id the data layer assigns

(***************************************************************************)
(* null and nullable values: null is <<>>, a value v is <<v>>.             *)
(***************************************************************************)
Null == <<>>
Some(v) == <<v>>
Val(o) == o[1]

Abs(x) == IF x < 0 THEN -x ELSE x
Sgn(x) == IF x < 0 THEN -1 ELSE IF x > 0 THEN 1 ELSE 0
MaxOf(a, b) == IF a >= b THEN a ELSE b

(***************************************************************************)
(* JavaScript numbers.  A number is a binary floating-point value: a       *)
(* significand of MantissaBits bits times a power of two, every result     *)
(* rounded to nearest, ties to even.  The model keeps that rule and        *)
(* shrinks the format: finite values are integers counting units of        *)
(* 2^-FracBits (the smallest step), and a value is representable when it   *)
(* has at most MantissaBits significant bits.  Pixel coordinates and their *)
(* squares stay below 2^MantissaBits, so integer arithmetic on them is     *)
(* exact, as it is for doubles.                                            *)
(***************************************************************************)
MantissaBits == 8
FracBits == 8

RECURSIVE Pow2(_)
Pow2(k) == IF k = 0 THEN 1 ELSE 2 * Pow2(k - 1)

RECURSIVE BitLen(_)
BitLen(n) == IF n = 0 THEN 0 ELSE 1 + BitLen(n \div 2)

Unit == Pow2(FracBits)            \* the number 1
Int2Num(n) == n * Unit            \* a small integer as a number

\* num/den units (den > 0), rounded to a representable value.
RoundRatio(num, den) ==
    LET a == Abs(num)
        k == MaxOf(0, BitLen(a \div den) - MantissaBits)
        D == den * Pow2(k)
        n == a \div D
        r == a - n * D
        m == IF 2 * r > D \/ (2 * r = D /\ n % 2 = 1) THEN n + 1 ELSE n
    IN  Sgn(num) * m * Pow2(k)

NumAdd(x, y) == RoundRatio(x + y, 1)
NumSub(x, y) == RoundRatio(x - y, 1)
NumMul(x, y) == RoundRatio(x * y, Unit)
NumDiv(x, y) == IF y > 0 THEN RoundRatio(x * Unit, y) ELSE RoundRatio(-(x * Unit), -y)
\* x % y of JavaScript (y > 0): the remainder has the sign of the dividend.
NumRem(x, y) == Sgn(x) * (Abs(x) % y)

\* floor(sqrt(n)) by bisection, lo*lo <= n < hi*hi.
RECURSIVE ISqrt(_, _, _)
ISqrt(n, lo, hi) ==
    IF hi - lo <= 1 THEN lo
    ELSE LET mid == (lo + hi) \div 2
         IN  IF mid * mid <= n THEN ISqrt(n, mid, hi) ELSE ISqrt(n, lo, mid)

\* Math.sqrt of a small non-negative integer n, correctly rounded.
NumSqrt(n) ==
    LET N == n * Unit * Unit
        s == ISqrt(N, 0, (n + 1) * Unit)
        k == MaxOf(0, BitLen(s) - MantissaBits)
        st == Pow2(k)
        c == (s \div st) * st
        \* sqrt(N) against the midpoint c + st/2, compared in squares (times 4)
        up == 4 * N > (2 * c + st) * (2 * c + st)
    IN  IF up THEN c + st ELSE c

MathPI == 804         \* Math.PI = 3.14159... in units of 2^-8, 8 significant bits
Tenth == 26           \* the literal 0.1
Deg180 == Int2Num(180)
Deg360 == Int2Num(360)

\* Math.atan2(dy, dx) for -4 <= dy, dx <= 4, correctly rounded
\* (row dy + 5, column dx + 5).
Atan2Table ==
    << <<-604, -568, -520, -464, -402, -340, -284, -237, -201>>,
       <<-640, -604, -552, -484, -402, -320, -252, -201, -165>>,
       <<-684, -652, -604, -520, -402, -284, -201, -151, -119>>,
       <<-740, -720, -684, -604, -402, -201, -119, -82, -63>>,
       <<804, 804, 804, 804, 0, 0, 0, 0, 0>>,
       <<740, 720, 684, 604, 402, 201, 119, 82, 63>>,
       <<684, 652, 604, 520, 402, 284, 201, 151, 119>>,
       <<640, 604, 552, 484, 402, 320, 252, 201, 165>>,
       <<604, 568, 520, 464, 402, 340, 284, 237, 201>> >>
MathAtan2(dy, dx) == Atan2Table[dy + 5][dx + 5]

\* Numbers that may be non-finite (an overlay's scale).
Fin(v) == [k |-> "fin", v |-> v]
Infinity == [k |-> "inf", v |-> 0]
NaN == [k |-> "nan", v |-> 0]

\* a / b for finite a, b >= 0: x/0 is Infinity, 0/0 is NaN.
JsDiv(a, b) ==
    IF b = 0 THEN (IF a = 0 THEN NaN ELSE Infinity) ELSE Fin(NumDiv(a, b))

\* s * r for non-negative operands: NaN propagates, Infinity * 0 is NaN.
JsMul(s, r) ==
    IF s.k = "nan" \/ r.k = "nan" THEN NaN
    ELSE IF s.k = "inf" \/ r.k = "inf"
         THEN (IF (s.k = "fin" /\ s.v = 0) \/ (r.k = "fin" /\ r.v = 0) THEN NaN ELSE Infinity)
         ELSE Fin(NumMul(s.v, r.v))

\* Math.max(lo, s) for a finite lo: NaN if s is NaN.
MathMax(lo, s) ==
    IF s.k = "nan" THEN NaN
    ELSE IF s.k = "inf" THEN Infinity
    ELSE Fin(MaxOf(lo, s.v))

(***************************************************************************)
(* The viewport.  Geographic coordinates count GeoPerPixel-ths of a pixel; *)
(* latLngToLayerPoint rounds the projected point to whole pixels           *)
(* (Math.round), layerPointToLatLng unprojects a pixel exactly.            *)
(***************************************************************************)
GeoPerPixel == 2

MathRound(n, d) == (2 * n + d) \div (2 * d)      \* Math.round(n / d), d > 0

\* One zoom level up doubles the pixels per geographic unit.
ZoomLevels == {0, 1}
GeoPerPixelAt(z) == IF z = 0 THEN GeoPerPixel ELSE GeoPerPixel \div 2

(***************************************************************************)
(* State.                                                                  *)
(***************************************************************************)
VARIABLES
    \* PlannerApp (overlay build): the overlay set, the role, the fixed snapshot
    svgOverlays, role, fixedOverlay,
    \* MapLayout (overlay build): gesture state
    draggingId, dragOffset,
    resizingId, resizeStart,
    rotatingId, rotateStartAngle, rotateStartMouse, rotateInitialRotation,
    fixedOverlays, currentFixedOverlay,
    \* the window's mousemove/mouseup listener pairs, in registration order
    winListeners,
    \* PlannerApp (editor build): the layout list
    layouts, selectedLayout, editingLayout,
    \* MapLayout (drawing build): the polygon drawing machine
    isDrawing, drawingPoints,
    \* LayoutEditor, null while it is not mounted (its layout, isDrawing and
    \* drawingPoints carry the prefix ed)
    edLayout, selectedPlot, tool, isSaving, edIsDrawing, edDrawingPoints,
    \* PlotEditor of the selected plot: its form, and the auto-save timeout
    \* that would change something when it fires (the plot and the form of
    \* the render that set it)
    plotForm, plotTimer,
    \* the pending timers of handleSaveAndExit, each with the layout it will save
    saveTimers,
    \* the number of plot ids generated so far
    plotIds,
    \* history: the last event of the drawing build
    lastEvent,
    \* a shape-canvas editor: which of the three components it is, and its state
    panel, currentTool, shapes, selectedShapeId, isDragging, isResizing,
    dragStart, shapeResizeStart, canvasPoints,
    \* localStorage: the value under 'siteLayouts' (null when there is none) and
    \* whether the storage accepts reads and writes
    store, storage,
    \* PlannerApp's start: its phase and the list its load effect has queued
    phase, loaded,
    \* PlotDetailsPanel: the form, its isSaving flag and the pending timers of
    \* handleSaveChanges
    formData, panelIsSaving, formTimers,
    \* history: the ids given to the layouts created since PlannerApp started
    createdIds,
    \* PlotDetailsPanel, the SVG upload: the chosen file, the validated text,
    \* the validation message, and the texts of the FileReaders still reading
    svgFile, svgPreview, uploadError, readers,
    \* the Leaflet map of MapLayout: the zoom level, the pixel origin of the
    \* map layer (set when the view is reset) and the position of the map pane
    \* in the container (moved by panning)
    zoom, pixelOrigin, mapPanePos

gestureVars == <<draggingId, dragOffset, resizingId, resizeStart, rotatingId,
                 rotateStartAngle, rotateStartMouse, rotateInitialRotation>>
fixVars == <<fixedOverlays, currentFixedOverlay, fixedOverlay>>
engineVars == <<svgOverlays, gestureVars, fixVars, winListeners>>
hostVars == <<layouts, selectedLayout, editingLayout>>
mapDrawVars == <<isDrawing, drawingPoints>>
editorVars == <<edLayout, selectedPlot, tool, isSaving, edIsDrawing, edDrawingPoints,
                plotForm, plotTimer>>
drawVars == <<hostVars, mapDrawVars, editorVars, saveTimers, plotIds, lastEvent>>
shapeVars == <<panel, currentTool, shapes, selectedShapeId, isDragging, isResizing,
               dragStart, shapeResizeStart, canvasPoints>>
\* what neither the overlay engine nor the polygon drawing machines touch
dataVars == <<storage, phase, loaded, formData, panelIsSaving, formTimers>>
uploadVars == <<svgFile, svgPreview, uploadError, readers>>
viewVars == <<zoom, pixelOrigin, mapPanePos>>
otherExt == <<dataVars, uploadVars, viewVars>>
extVars == <<shapeVars, otherExt>>
vars == <<role, engineVars, drawVars, extVars, store, createdIds>>

\* map.latLngToLayerPoint: the projected point, rounded, relative to the
\* pixel origin.  map.layerPointToLatLng: its inverse, without rounding.
latLngToLayerPoint(latlng) ==
    [x |-> MathRound(latlng.lng, GeoPerPixelAt(zoom)) - pixelOrigin.x,
     y |-> MathRound(latlng.lat, GeoPerPixelAt(zoom)) - pixelOrigin.y]
layerPointToLatLng(pt) ==
    [lat |-> (pt.y + pixelOrigin.y) * GeoPerPixelAt(zoom),
     lng |-> (pt.x + pixelOrigin.x) * GeoPerPixelAt(zoom)]
\* Where a geographic point is in the map container: its layer point moved
\* by the position of the map pane.
latLngToContainerPoint(latlng) ==
    [x |-> latLngToLayerPoint(latlng).x + mapPanePos.x,
     y |-> latLngToLayerPoint(latlng).y + mapPanePos.y]

(***************************************************************************)
(* Inputs of the overlay engine.                                           *)
(***************************************************************************)
Pt(x, y) == [x |-> x, y |-> y]
LatLng(lat, lng) == [lat |-> lat, lng |-> lng]

\* Pointer positions (clientX, clientY).  The full engine is explored on one
\* line: the pointer moves between two positions, a press on the overlay
\* body happens at either, a press on the resize handle and a press on the
\* rotate handle at one position each.
GesturePointers == {Pt(0, 0), Pt(1, 0)}
ResizeHandlePointers == {Pt(1, 0)}
RotateHandlePointers == {Pt(0, 0)}
\* Pointer positions of the rotate-only exploration, around the pivot (2, 2).
RotatePointers == {Pt(0, 1), Pt(0, 0), Pt(0, 4), Pt(1, 4)}
\* Map centres an overlay can be created at: the first is not on the pixel grid.
MapCenters == {LatLng(0, 1), LatLng(0, 2)}
RotateCenters == {LatLng(4, 4)}

Range(s) == {s[i] : i \in DOMAIN s}
OverlayIds == {svgOverlays[i].id : i \in DOMAIN svgOverlays}
\* svgOverlays.find(o => o.id === id): its index, 0 when there is none.
IndexOf(ovs, id) ==
    IF \E i \in DOMAIN ovs : ovs[i].id = id
    THEN CHOOSE i \in DOMAIN ovs : ovs[i].id = id /\ \A j \in 1..(i - 1) : ovs[j].id /= id
    ELSE 0
OverlayOf(id) == svgOverlays[IndexOf(svgOverlays, id)]

Effects == <<"drag", "resize", "rotate">>
AllEffects == Range(Effects)

\* The gesture effects of a commit: the cleanups of the effects whose
\* dependencies changed run first (their listeners are removed), then those
\* effects run again in source order and register their listeners when their
\* gesture id is set.
MutRegisterAlways(ls, changed, dId, rsId, rtId) ==
    LET kept == SelectSeq(ls, LAMBDA k : k \notin changed)
        again == SelectSeq(Effects, LAMBDA k : k \in changed)
    IN  kept \o again
Register(ls, changed, dId, rsId, rtId) ==
    LET idOf(k) == IF k = "drag" THEN dId ELSE IF k = "resize" THEN rsId ELSE rtId
        kept == SelectSeq(ls, LAMBDA k : k \notin changed)
        again == SelectSeq(Effects, LAMBDA k : k \in changed /\ idOf(k) /= Null)
    IN  kept \o again

InitOverlay ==
    /\ svgOverlays = <<>>
    /\ role = "Admin"
    /\ fixedOverlay = Null
    /\ draggingId = Null /\ dragOffset = Null
    /\ resizingId = Null /\ resizeStart = Null
    /\ rotatingId = Null /\ rotateStartAngle = Null
    /\ rotateStartMouse = Null /\ rotateInitialRotation = Null
    /\ fixedOverlays = {} /\ currentFixedOverlay = Null
    /\ winListeners = <<>>

\* PlannerApp of the editor build after its load effect (no saved layouts,
\* INITIAL_LAYOUTS is empty), MapLayout idle, LayoutEditor not mounted.
InitDrawRest ==
    /\ selectedLayout = Null /\ editingLayout = Null
    /\ isDrawing = FALSE /\ drawingPoints = <<>>
    /\ edLayout = Null /\ selectedPlot = Null /\ tool = Null /\ isSaving = Null
    /\ plotForm = Null /\ plotTimer = Null
    /\ edIsDrawing = Null /\ edDrawingPoints = Null
    /\ saveTimers = <<>>
    /\ plotIds = 0
    /\ lastEvent = "other"
InitDraw == layouts = <<>> /\ InitDrawRest

(***************************************************************************)
(* PlannerApp: the overlay set.                                            *)
(***************************************************************************)
\* the text of a valid SVG file, in pieces
SvgContent == <<"<svg", "/>">>

\* handleUploadSvgToMap + handleAddSvgOverlay: the id is the time stamp of the
\* upload (a fresh number), the anchor is the map centre.  The new array and
\* the re-render of PlannerApp re-run the three gesture effects.
AddOverlay(mapCenter) ==
    /\ role = "Admin"
    /\ Len(svgOverlays) < MaxOverlays
    /\ svgOverlays' = Append(svgOverlays,
           [id |-> Len(svgOverlays) + 1, svgContent |-> SvgContent,
            position |-> mapCenter, scale |-> Fin(Int2Num(1)), rotation |-> 0])
    /\ winListeners' = Register(winListeners, AllEffects, draggingId, resizingId, rotatingId)
    /\ UNCHANGED <<role, gestureVars, fixVars>>
    /\ UNCHANGED <<drawVars, extVars, store, createdIds>>

\* handleUpdateSvgOverlay's updater: prev.map(o => o.id === updated.id ? updated : o)
UpdateSvgOverlay(prev, updated) ==
    [i \in DOMAIN prev |-> IF prev[i].id = updated.id THEN updated ELSE prev[i]]

\* Header: the role switch (setRole with the other role).
RoleChange(r) ==
    /\ r /= role
    /\ role' = r
    /\ winListeners' = Register(winListeners, AllEffects, draggingId, resizingId, rotatingId)
    /\ UNCHANGED <<svgOverlays, gestureVars, fixVars>>
    /\ UNCHANGED <<drawVars, extVars, store, createdIds>>

(***************************************************************************)
(* MapLayout: starting a gesture.  The handlers exist on an overlay only   *)
(* for the admin and only while the overlay is not fixed.                  *)
(***************************************************************************)
Interactive(id) == role = "Admin" /\ id \in OverlayIds /\ id \notin fixedOverlays

handleSvgMouseDown(e, id) ==
    /\ Interactive(id)
    /\ draggingId' = Some(id)
    /\ dragOffset' = Some(Pt(e.x, e.y))
    /\ winListeners' = Register(winListeners, {"drag"}, draggingId', resizingId, rotatingId)
    /\ UNCHANGED <<svgOverlays, role, fixVars, resizingId, resizeStart, rotatingId,
                   rotateStartAngle, rotateStartMouse, rotateInitialRotation>>
    /\ UNCHANGED <<drawVars, extVars, store, createdIds>>

handleResizeMouseDown(e, id) ==
    /\ Interactive(id)
    /\ resizingId' = Some(id)
    /\ resizeStart' = Some([x |-> e.x, y |-> e.y, scale |-> OverlayOf(id).scale])
    /\ winListeners' = Register(winListeners, {"resize"}, draggingId, resizingId', rotatingId)
    /\ UNCHANGED <<svgOverlays, role, fixVars, draggingId, dragOffset, rotatingId,
                   rotateStartAngle, rotateStartMouse, rotateInitialRotation>>
    /\ UNCHANGED <<drawVars, extVars, store, createdIds>>

handleRotateMouseDown(e, id) ==
    LET pt == latLngToLayerPoint(OverlayOf(id).position)
        angle == MathAtan2(e.y - pt.y, e.x - pt.x)
        \* the rotate effect depends on numbers, compared by value
        changed == IF <<rotatingId, rotateStartAngle, rotateInitialRotation>>
                       = <<Some(id), Some(angle), Some(OverlayOf(id).rotation)>>
                   THEN {} ELSE {"rotate"}
    IN  /\ Interactive(id)
        /\ rotatingId' = Some(id)
        /\ rotateStartAngle' = Some(angle)
        /\ rotateStartMouse' = Some(Pt(e.x, e.y))
        /\ rotateInitialRotation' = Some(OverlayOf(id).rotation)
        /\ winListeners' = Register(winListeners, changed, draggingId, resizingId, rotatingId')
        /\ UNCHANGED <<svgOverlays, role, fixVars, draggingId, dragOffset,
                       resizingId, resizeStart>>
        /\ UNCHANGED <<drawVars, extVars, store, createdIds>>

\* handleFixOverlay, reached by activating the overlay's Fix button.
MutFixToggles(id) ==
    /\ role = "Admin" /\ id \in OverlayIds
    /\ fixedOverlays' = IF id \in fixedOverlays THEN fixedOverlays \ {id}
                                                 ELSE fixedOverlays \cup {id}
    /\ currentFixedOverlay' = Some([id |-> id, svgContent |-> OverlayOf(id).svgContent,
                                    position |-> OverlayOf(id).position])
    /\ fixedOverlay' = currentFixedOverlay'
    /\ winListeners' = Register(winListeners, AllEffects, draggingId, resizingId, rotatingId)
    /\ UNCHANGED <<svgOverlays, role, gestureVars>>
    /\ UNCHANGED <<drawVars, extVars, store, createdIds>>
handleFixOverlay(id) ==
    /\ Interactive(id)
    /\ fixedOverlays' = fixedOverlays \cup {id}
    /\ currentFixedOverlay' = Some([id |-> id, svgContent |-> OverlayOf(id).svgContent,
                                    position |-> OverlayOf(id).position])
    /\ fixedOverlay' = currentFixedOverlay'
    /\ winListeners' = Register(winListeners, AllEffects, draggingId, resizingId, rotatingId)
    /\ UNCHANGED <<svgOverlays, role, gestureVars>>
    /\ UNCHANGED <<drawVars, extVars, store, createdIds>>

(***************************************************************************)
(* MapLayout: the window listeners of an active gesture.  A listener is    *)
(* the closure of the render that registered it: it reads the state of     *)
(* that render, which is the current state because every commit that       *)
(* changes what a listener reads re-registers it.  Each returns the        *)
(* overlays it hands to onUpdateSvgOverlay (none or one).                  *)
(***************************************************************************)
Sq(n) == n * n

DragMouseMove(e) ==
    IF draggingId = Null \/ dragOffset = Null THEN <<>>
    ELSE IF IndexOf(svgOverlays, Val(draggingId)) = 0 THEN <<>>
    ELSE LET overlay == OverlayOf(Val(draggingId))
             mapPoint == latLngToLayerPoint(overlay.position)
             dx == e.x - Val(dragOffset).x
             dy == e.y - Val(dragOffset).y
             newPoint == Pt(mapPoint.x + dx, mapPoint.y + dy)
             newLatLng == layerPointToLatLng(newPoint)
         IN  << [overlay EXCEPT !.position = newLatLng] >>

ResizeScale(start, pt, e) ==
    LET startDist == NumSqrt(Sq(start.x - pt.x) + Sq(start.y - pt.y))
        currDist == NumSqrt(Sq(e.x - pt.x) + Sq(e.y - pt.y))
    IN  MathMax(Tenth, JsMul(start.scale, JsDiv(currDist, startDist)))

ResizeMouseMove(e) ==
    IF resizingId = Null \/ resizeStart = Null THEN <<>>
    ELSE IF IndexOf(svgOverlays, Val(resizingId)) = 0 THEN <<>>
    ELSE LET overlay == OverlayOf(Val(resizingId))
             pt == latLngToLayerPoint(overlay.position)
             newScale == ResizeScale(Val(resizeStart), pt, e)
         IN  << [overlay EXCEPT !.scale = newScale] >>

RotateAngle(initial, startAngle, pt, e) ==
    LET currentAngle == MathAtan2(e.y - pt.y, e.x - pt.x)
        delta == NumSub(currentAngle, startAngle)
        turned == NumAdd(initial, NumDiv(NumMul(delta, Deg180), MathPI))
        newRotation == NumRem(turned, Deg360)
    IN  IF newRotation < 0 THEN NumAdd(newRotation, Deg360) ELSE newRotation

RotateMouseMove(e) ==
    IF rotatingId = Null \/ rotateStartAngle = Null \/ rotateInitialRotation = Null THEN <<>>
    ELSE IF IndexOf(svgOverlays, Val(rotatingId)) = 0 THEN <<>>
    ELSE LET overlay == OverlayOf(Val(rotatingId))
             pt == latLngToLayerPoint(overlay.position)
             newRotation == RotateAngle(Val(rotateInitialRotation), Val(rotateStartAngle), pt, e)
         IN  << [overlay EXCEPT !.rotation = newRotation] >>

handleMouseMove(k, e) ==
    IF k = "drag" THEN DragMouseMove(e)
    ELSE IF k = "resize" THEN ResizeMouseMove(e)
    ELSE RotateMouseMove(e)

\* The updates of one mousemove: every registered listener, in order.
RECURSIVE MoveUpdates(_, _)
MoveUpdates(ls, e) ==
    IF ls = <<>> THEN <<>>
    ELSE handleMouseMove(Head(ls), e) \o MoveUpdates(Tail(ls), e)

\* The queued updaters applied in order to the overlay set.
RECURSIVE ApplyUpdates(_, _)
ApplyUpdates(prev, ups) ==
    IF ups = <<>> THEN prev
    ELSE ApplyUpdates(UpdateSvgOverlay(prev, Head(ups)), Tail(ups))

\* The part of the plane and of the scales the model explores.
InView(o) ==
    LET pt == latLngToLayerPoint(o.position)
    IN  /\ pt.x \in 0..MaxCoord /\ pt.y \in 0..MaxCoord
        /\ o.scale.k = "fin" => o.scale.v <= Int2Num(MaxScale)

\* A mousemove on the window while listeners are registered.
WindowMouseMove(e) ==
    LET ups == MoveUpdates(winListeners, e)
        dragged == "drag" \in Range(winListeners) /\ DragMouseMove(e) /= <<>>
    IN  /\ winListeners /= <<>>
        /\ \A i \in DOMAIN ups : InView(ups[i])
        /\ svgOverlays' = ApplyUpdates(svgOverlays, ups)
        /\ dragOffset' = IF dragged THEN Some(Pt(e.x, e.y)) ELSE dragOffset
        /\ winListeners' = Register(winListeners, IF ups = <<>> THEN {} ELSE AllEffects,
                                    draggingId, resizingId, rotatingId)
        /\ UNCHANGED <<role, fixVars, draggingId, resizingId, resizeStart, rotatingId,
                       rotateStartAngle, rotateStartMouse, rotateInitialRotation>>
        /\ UNCHANGED <<drawVars, extVars, store, createdIds>>

\* A mouseup on the window: the handleMouseUp of every registered listener.
WindowMouseUp ==
    LET on == Range(winListeners)
    IN  /\ draggingId /= Null \/ resizingId /= Null \/ rotatingId /= Null
        /\ draggingId' = IF "drag" \in on THEN Null ELSE draggingId
        /\ dragOffset' = IF "drag" \in on THEN Null ELSE dragOffset
        /\ resizingId' = IF "resize" \in on THEN Null ELSE resizingId
        /\ resizeStart' = IF "resize" \in on THEN Null ELSE resizeStart
        /\ rotatingId' = IF "rotate" \in on THEN Null ELSE rotatingId
        /\ rotateStartAngle' = IF "rotate" \in on THEN Null ELSE rotateStartAngle
        /\ rotateStartMouse' = IF "rotate" \in on THEN Null ELSE rotateStartMouse
        /\ rotateInitialRotation' = IF "rotate" \in on THEN Null ELSE rotateInitialRotation
        /\ winListeners' = Register(winListeners, on, draggingId', resizingId', rotatingId')
        /\ UNCHANGED <<svgOverlays, role, fixVars>>
        /\ UNCHANGED <<drawVars, extVars, store, createdIds>>

(***************************************************************************)
(* The overlay engine.                                                     *)
(***************************************************************************)
Roles == {"Admin", "Client"}

NextGesture ==
    \/ \E c \in MapCenters : AddOverlay(c)
    \/ \E r \in Roles : RoleChange(r)
    \/ \E e \in GesturePointers, id \in OverlayIds : handleSvgMouseDown(e, id)
    \/ \E e \in ResizeHandlePointers, id \in OverlayIds : handleResizeMouseDown(e, id)
    \/ \E e \in RotateHandlePointers, id \in OverlayIds : handleRotateMouseDown(e, id)
    \/ \E id \in OverlayIds : handleFixOverlay(id)
    \/ \E e \in GesturePointers : WindowMouseMove(e)
    \/ WindowMouseUp

\* A shape-canvas editor after construction (useState initial values).
ShapeEditorInit ==
    /\ currentTool = "select"
    /\ shapes = <<>> /\ canvasPoints = <<>>
    /\ selectedShapeId = Null
    /\ isDragging = FALSE /\ isResizing = FALSE
    /\ dragStart = Null /\ shapeResizeStart = Null

\* PlotDetailsPanel after construction.
\* (a name is the sequence of the pieces of its template string, '' the empty one)
EmptyForm == [name |-> <<>>, vendorName |-> "", status |-> "Available"]
FormOf(l) == [name |-> l.name, vendorName |-> l.vendorName, status |-> l.status]
\* The map after setView(MAP_CENTER, MAP_ZOOM); pixels count from the pixel
\* origin of that view.
ViewInit == zoom = 0 /\ pixelOrigin = [x |-> 0, y |-> 0] /\ mapPanePos = [x |-> 0, y |-> 0]
UploadInit == svgFile = Null /\ svgPreview = Null /\ uploadError = Null /\ readers = <<>>
PanelInit == formData = EmptyForm /\ panelIsSaving = FALSE /\ formTimers = <<>> /\ UploadInit

\* PlannerApp has started with nothing stored and a storage that works.
InitStarted ==
    /\ store = Null /\ storage = "ok" /\ createdIds = {}
    /\ phase = "ready" /\ loaded = Null
    /\ PanelInit /\ ViewInit

\* The shape canvas PlannerApp always renders is DrawingToolsPanel.
InitExt ==
    /\ panel = "DrawingToolsPanel"
    /\ ShapeEditorInit
    /\ InitStarted

Init == InitOverlay /\ InitDraw /\ InitExt
Spec == Init /\ [][NextGesture]_vars

\* The rotate gesture alone, with pointers off the axes.
NextRotate ==
    \/ \E c \in RotateCenters : AddOverlay(c)
    \/ \E e \in RotatePointers, id \in OverlayIds : handleRotateMouseDown(e, id)
    \/ \E e \in RotatePointers : WindowMouseMove(e)
    \/ WindowMouseUp

SpecRotate == Init /\ [][NextRotate]_vars

(***************************************************************************)
(* Properties of the overlay engine.                                       *)
(***************************************************************************)
ActiveGestures ==
    {k \in AllEffects :
        (IF k = "drag" THEN draggingId ELSE IF k = "resize" THEN resizingId ELSE rotatingId)
            /= Null}

GestureIdle ==
    /\ draggingId = Null /\ resizingId = Null /\ rotatingId = Null
    /\ dragOffset = Null /\ resizeStart = Null
    /\ rotateStartAngle = Null /\ rotateInitialRotation = Null

AnchorPixel(o) == latLngToLayerPoint(o.position)

\* a >= lo of JavaScript for a finite lo: false for NaN, true for Infinity.
JsGe(s, lo) == s.k = "inf" \/ (s.k = "fin" /\ s.v >= lo)

\* C1: in every reachable state at most one of draggingId, resizingId and
\* rotatingId is non-null.
C1_AtMostOneGesture == Cardinality(ActiveGestures) <= 1

\* C2: a mouseup on the window while a gesture is active leaves the three
\* gesture ids and the gesture start data null and no window listener
\* registered; in every state the registered listeners are exactly those of
\* the gestures whose id is set.
C2_MouseUpEndsGesture ==
    [][ /\ WindowMouseUp => (GestureIdle' /\ winListeners' = <<>>)
        /\ Range(winListeners') = ActiveGestures'
        /\ Len(winListeners') = Cardinality(ActiveGestures') ]_vars

\* C2 witness: a resize gesture changed the scale and a mouseup ended it.
C2_Witness ==
    /\ svgOverlays /= <<>>
    /\ svgOverlays[1].scale = Fin(Int2Num(2))
    /\ GestureIdle /\ winListeners = <<>>

\* C3: once an overlay is fixed no step changes its anchor, scale or
\* rotation, and no gesture starts on it.
C3_FixedIsFrozen ==
    [][ \A id \in fixedOverlays :
           /\ OverlayOf(id)' = OverlayOf(id)
           /\ draggingId' = Some(id) => draggingId = Some(id)
           /\ resizingId' = Some(id) => resizingId = Some(id)
           /\ rotatingId' = Some(id) => rotatingId = Some(id) ]_vars

\* C7: the scale of every overlay is at least 0.1 (the scale starts at 1 and
\* only a resize move assigns it).
C7_ScaleAtLeastTenth ==
    \A i \in DOMAIN svgOverlays : JsGe(svgOverlays[i].scale, Tenth)

\* C8: the rotation of every overlay is in [0, 360) (the rotation starts at 0
\* and only a rotate move assigns it).
C8_RotationInRange ==
    \A i \in DOMAIN svgOverlays :
        svgOverlays[i].rotation >= 0 /\ svgOverlays[i].rotation < Deg360

\* C9: a mousemove during a drag translates the anchor by the displacement of
\* the pointer since the previous event of the drag, in pixels.
C9_DragTranslates ==
    [][ \A e \in GesturePointers :
           (WindowMouseMove(e) /\ draggingId /= Null /\ dragOffset /= Null)
           => AnchorPixel(OverlayOf(Val(draggingId)))'
                = Pt(AnchorPixel(OverlayOf(Val(draggingId))).x + e.x - Val(dragOffset).x,
                     AnchorPixel(OverlayOf(Val(draggingId))).y + e.y - Val(dragOffset).y) ]_vars

\* C10: a mousemove during a resize leaves the overlay with the scale
\* max(0.1, initialScale * currentDistance / initialDistance), the distances
\* measured from the anchor (here the anchor before the move, which in the
\* refuting step is still the anchor at pointer-down).
C10_ResizeFormula ==
    [][ \A e \in GesturePointers :
           (WindowMouseMove(e) /\ resizingId /= Null /\ resizeStart /= Null)
           => OverlayOf(Val(resizingId)).scale'
                = ResizeScale(Val(resizeStart), AnchorPixel(OverlayOf(Val(resizingId))), e) ]_vars

(***************************************************************************)
(* The drawing build: PlannerApp with the layout list, MapLayout with the  *)
(* polygon drawing machine, LayoutEditor.  PlannerApp renders LayoutEditor *)
(* alone while editingLayout is set, and the header, MapLayout and the     *)
(* side panel otherwise; a component that is not rendered has no state.    *)
(***************************************************************************)
MapPoints == {LatLng(1, 1), LatLng(1, 2)}       \* e.latlng of a click on the main map
EditorPoints == {LatLng(1, 1)}                  \* e.latlng of a click on the editor map
Tools == {"select", "draw", "erase"}

Editing == editingLayout /= Null

MountEditor(initialLayout) ==
    /\ edLayout' = Some(initialLayout)
    /\ selectedPlot' = Null
    /\ plotForm' = Null /\ plotTimer' = Null
    /\ tool' = "select"
    /\ isSaving' = FALSE
    /\ edIsDrawing' = FALSE
    /\ edDrawingPoints' = <<>>

UnmountEditor ==
    /\ edLayout' = Null
    /\ selectedPlot' = Null
    /\ plotForm' = Null /\ plotTimer' = Null
    /\ tool' = "none"
    /\ isSaving' = FALSE
    /\ edIsDrawing' = FALSE
    /\ edDrawingPoints' = <<>>

\* MapLayout's state at mount, and the value the model keeps while it is not mounted.
MountMapLayout == isDrawing' = FALSE /\ drawingPoints' = <<>>

(***************************************************************************)
(* Persistence: the save effect of PlannerApp (both builds).               *)
(***************************************************************************)
\* JSON.stringify of a layout list and JSON.parse of a stored text.  The
\* records hold finite numbers, strings and arrays only, which JSON carries
\* unchanged; a stored text is tagged with what it parses to.
Stringify(ls) == [kind |-> "list", value |-> ls]
Parses(text) == text.kind = "list"
JSONparse(text) == text.value
\* a stored text as a condition: null and the empty string are falsy
StoreTruthy(st) == st /= Null /\ Val(st).kind /= "empty"

\* The save effect for the list ls: it writes when the list is non-empty or
\* something is stored already; getItem and setItem throw when the storage is
\* denied, setItem throws when it is full, and the catch leaves it at that.
MutSaveAttemptAlways(st, ls) == Some(Stringify(ls))
SaveAttempt(st, ls) ==
    IF storage = "ok" /\ (Len(ls) > 0 \/ StoreTruthy(st)) THEN Some(Stringify(ls)) ELSE st

(***************************************************************************)
(* PlannerApp (editor build).                                              *)
(***************************************************************************)
RECURSIVE MaxId(_)
MaxId(ls) == IF ls = <<>> THEN 0 ELSE MaxOf(Head(ls).id, MaxId(Tail(ls)))

MutNewLayoutReversed(latlngs) ==
    LET newId == IF Len(layouts) > 0 THEN MaxId(layouts) + 1 ELSE 1
    IN  [id |-> newId, name |-> <<"New Layout", newId>>, vendorName |-> "N/A",
         status |-> "Available",
         latlngs |-> [i \in DOMAIN latlngs |-> latlngs[Len(latlngs) + 1 - i]],
         plots |-> <<>>]
\* handleDrawingFinish: the layout it builds
NewLayout(latlngs) ==
    LET newId == IF Len(layouts) > 0 THEN MaxId(layouts) + 1 ELSE 1
    IN  [id |-> newId, name |-> <<"New Layout", newId>>, vendorName |-> "N/A",
         status |-> "Available", latlngs |-> latlngs, plots |-> <<>>]

handleDrawingFinish(latlngs) ==
    /\ layouts' = Append(layouts, NewLayout(latlngs))
    /\ selectedLayout' = Some(NewLayout(latlngs))
    /\ createdIds' = createdIds \cup {NewLayout(latlngs).id}

\* A click on a layout's polygon or on its entry in the list.
handleLayoutSelect(i) ==
    /\ ~Editing
    /\ selectedLayout' = Some(layouts[i])
    /\ lastEvent' = "other"
    /\ UNCHANGED <<role, engineVars, extVars, store, createdIds, layouts, editingLayout, mapDrawVars, editorVars,
                   saveTimers, plotIds>>

\* The close button of the side panel.
handleDeselect ==
    /\ ~Editing
    /\ selectedLayout /= Null
    /\ selectedLayout' = Null
    /\ lastEvent' = "other"
    /\ UNCHANGED <<role, engineVars, extVars, store, createdIds, layouts, editingLayout, mapDrawVars, editorVars,
                   saveTimers, plotIds>>

\* Header: the role switch, rendered while the editor is not.
HostRoleChange(r) ==
    /\ ~Editing
    /\ r /= role
    /\ role' = r
    /\ lastEvent' = "other"
    /\ UNCHANGED <<engineVars, extVars, store, createdIds, hostVars, mapDrawVars, editorVars, saveTimers, plotIds>>

\* PlannerApp renders LayoutEditor in place of the header, the map and
\* PlotDetailsPanel while a layout is under edit.  The panel's form and
\* isSaving are state of the mounted panel: it mounts with isSaving false and
\* its [layout] effect sets the form from a non-null layout prop; while it is
\* not mounted the model keeps the initial values.  A save it has started
\* stays pending in formTimers.
UnmountPanel == formData' = EmptyForm /\ panelIsSaving' = FALSE
MountPanel(sel) ==
    /\ formData' = IF sel /= Null THEN FormOf(Val(sel)) ELSE EmptyForm
    /\ panelIsSaving' = FALSE
\* what entering and leaving the editor do not touch outside the drawing machines
editorSwitchFrame == <<shapeVars, storage, phase, loaded, formTimers, uploadVars, viewVars>>

handleEnterEditor ==
    /\ ~Editing
    /\ role = "Admin"
    /\ selectedLayout /= Null
    /\ editingLayout' = selectedLayout
    /\ MountEditor(Val(selectedLayout))
    /\ MountMapLayout
    /\ UnmountPanel
    /\ lastEvent' = "other"
    /\ UNCHANGED <<role, engineVars, editorSwitchFrame, store, createdIds, layouts, selectedLayout, saveTimers, plotIds>>

handleExitEditor ==
    /\ Editing
    /\ editingLayout' = Null
    /\ selectedLayout' = Null
    /\ UnmountEditor
    /\ MountMapLayout
    /\ MountPanel(selectedLayout')
    /\ lastEvent' = "other"
    /\ UNCHANGED <<role, engineVars, editorSwitchFrame, store, createdIds, layouts, saveTimers, plotIds>>

\* The timer of handleSaveAndExit: handleSaveChangesFromEditor with the layout
\* the editor held when Save was clicked.
SaveTimerFires ==
    /\ saveTimers /= <<>>
    /\ LET updatedLayout == Head(saveTimers)
       IN  layouts' = [i \in DOMAIN layouts |->
                          IF layouts[i].id = updatedLayout.id THEN updatedLayout ELSE layouts[i]]
    /\ saveTimers' = Tail(saveTimers)
    /\ editingLayout' = Null
    /\ IF Editing THEN UnmountEditor /\ MountMapLayout /\ MountPanel(selectedLayout)
                  ELSE UNCHANGED <<editorVars, mapDrawVars, formData, panelIsSaving>>
    /\ store' = SaveAttempt(store, layouts')
    /\ lastEvent' = "other"
    /\ UNCHANGED <<role, engineVars, editorSwitchFrame, selectedLayout, plotIds, createdIds>>

(***************************************************************************)
(* MapLayout (drawing build).                                              *)
(***************************************************************************)
MutDrawClickDeselects ==
    /\ ~Editing /\ role = "Admin" /\ ~isDrawing
    /\ isDrawing' = TRUE
    /\ selectedLayout' = Null
    /\ lastEvent' = "other"
    /\ UNCHANGED <<role, engineVars, extVars, store, createdIds, layouts, editingLayout, drawingPoints, editorVars,
                   saveTimers, plotIds>>
handleDrawClick ==
    /\ ~Editing /\ role = "Admin" /\ ~isDrawing
    /\ isDrawing' = TRUE
    /\ lastEvent' = "other"
    /\ UNCHANGED <<role, engineVars, extVars, store, createdIds, hostVars, drawingPoints, editorVars, saveTimers, plotIds>>

MutMapClickPrepends(latlng) ==
    /\ ~Editing
    /\ IF isDrawing
       THEN /\ Len(drawingPoints) < MaxPoints
            /\ drawingPoints' = <<latlng>> \o drawingPoints
            /\ UNCHANGED selectedLayout
       ELSE /\ selectedLayout' = Null
            /\ UNCHANGED drawingPoints
    /\ lastEvent' = "other"
    /\ UNCHANGED <<role, engineVars, extVars, store, createdIds, layouts, editingLayout, isDrawing, editorVars,
                   saveTimers, plotIds>>
\* handleMapClick: a click on the map adds a point while drawing and
\* deselects otherwise.
handleMapClick(latlng) ==
    /\ ~Editing
    /\ IF isDrawing
       THEN /\ Len(drawingPoints) < MaxPoints
            /\ drawingPoints' = Append(drawingPoints, latlng)
            /\ UNCHANGED selectedLayout
       ELSE /\ selectedLayout' = Null
            /\ UNCHANGED drawingPoints
    /\ lastEvent' = "other"
    /\ UNCHANGED <<role, engineVars, extVars, store, createdIds, layouts, editingLayout, isDrawing, editorVars,
                   saveTimers, plotIds>>

MutCancelKeepsPoints ==
    /\ ~Editing /\ role = "Admin" /\ isDrawing
    /\ isDrawing' = FALSE
    /\ lastEvent' = "cancel"
    /\ UNCHANGED <<role, engineVars, extVars, store, createdIds, hostVars, drawingPoints, editorVars, saveTimers, plotIds>>
handleCancelClick ==
    /\ ~Editing /\ role = "Admin" /\ isDrawing
    /\ isDrawing' = FALSE
    /\ drawingPoints' = <<>>
    /\ lastEvent' = "cancel"
    /\ UNCHANGED <<role, engineVars, extVars, store, createdIds, hostVars, editorVars, saveTimers, plotIds>>

MutFinishKeepsPoints ==
    /\ IF Len(drawingPoints) > 2
       THEN /\ Len(layouts) < MaxLayouts
            /\ handleDrawingFinish(drawingPoints)
            /\ store' = SaveAttempt(store, layouts')
       ELSE UNCHANGED <<layouts, selectedLayout, store, createdIds>>
    /\ isDrawing' = FALSE
    /\ UNCHANGED drawingPoints
handleFinishClick ==
    /\ IF Len(drawingPoints) > 2
       THEN /\ Len(layouts) < MaxLayouts
            /\ handleDrawingFinish(drawingPoints)
            /\ store' = SaveAttempt(store, layouts')
       ELSE UNCHANGED <<layouts, selectedLayout, store, createdIds>>
    /\ isDrawing' = FALSE
    /\ drawingPoints' = <<>>

\* The Finish Drawing button: disabled={drawingPoints.length < 3}
MutFinishNeverDisabled == FALSE
FinishDisabled == Len(drawingPoints) < 3

\* A click on the Finish Drawing button; a disabled button dispatches nothing.
FinishClick ==
    /\ ~Editing /\ role = "Admin" /\ isDrawing
    /\ IF FinishDisabled
       THEN UNCHANGED <<layouts, selectedLayout, isDrawing, drawingPoints, store, createdIds>>
       ELSE handleFinishClick
    /\ lastEvent' = "finish"
    /\ UNCHANGED <<role, engineVars, extVars, editingLayout, editorVars, saveTimers, plotIds>>

(***************************************************************************)
(* LayoutEditor.                                                           *)
(***************************************************************************)
\* the effect that compares JSON.stringify of the initial and current plots
hasChanges == Val(edLayout).plots /= Val(editingLayout).plots

\* PlotEditor after a commit of LayoutEditor.  It is rendered for the
\* selected plot with key={selectedPlot.id}: with no plot selected or with
\* another plot it is unmounted, which clears its timeout, and the new one
\* starts from its plot; with another record of the same plot its [plot]
\* effect sets the form from the record and the pending timeout is cleared.
PlotFormOf(plot) == [plotNumber |-> plot.plotNumber, status |-> plot.status]
PlotEditorAfter ==
    /\ plotForm' = IF selectedPlot' = selectedPlot THEN plotForm
                   ELSE IF selectedPlot' = Null THEN Null
                   ELSE PlotFormOf(Val(selectedPlot'))
    /\ plotTimer' = IF selectedPlot' = selectedPlot THEN plotTimer ELSE Null

handleToolSelect(selectedTool) ==
    /\ Editing
    /\ tool' = selectedTool
    /\ edIsDrawing' = (selectedTool = "draw")
    /\ edDrawingPoints' = IF selectedTool /= "draw" THEN <<>> ELSE edDrawingPoints
    /\ lastEvent' = "other"
    /\ UNCHANGED <<role, engineVars, extVars, store, createdIds, hostVars, mapDrawVars, edLayout, selectedPlot, isSaving,
                   plotForm, plotTimer, saveTimers, plotIds>>

EditorMapClick(latlng) ==
    /\ Editing
    /\ IF tool = "draw" /\ edIsDrawing
       THEN /\ Len(edDrawingPoints) < MaxPoints
            /\ edDrawingPoints' = Append(edDrawingPoints, latlng)
            /\ UNCHANGED selectedPlot
       ELSE /\ selectedPlot' = IF tool = "select" THEN Null ELSE selectedPlot
            /\ UNCHANGED edDrawingPoints
    /\ PlotEditorAfter
    /\ lastEvent' = "other"
    /\ UNCHANGED <<role, engineVars, extVars, store, createdIds, hostVars, mapDrawVars, edLayout, tool, isSaving,
                   edIsDrawing, saveTimers, plotIds>>

MutPlotClickErasesAll(i) ==
    LET plot == Val(edLayout).plots[i]
    IN  /\ Editing
        /\ IF tool = "select"
           THEN selectedPlot' = Some(plot) /\ UNCHANGED edLayout
           ELSE IF tool = "erase"
           THEN /\ edLayout' = Some([Val(edLayout) EXCEPT
                       !.plots = <<>>])
                /\ selectedPlot' = Null
           ELSE UNCHANGED <<edLayout, selectedPlot>>
        /\ PlotEditorAfter
        /\ lastEvent' = "other"
        /\ UNCHANGED <<role, engineVars, extVars, store, createdIds, hostVars, mapDrawVars, tool, isSaving, edIsDrawing,
                       edDrawingPoints, saveTimers, plotIds>>
\* A click on the polygon of a plot.
PlotClick(i) ==
    LET plot == Val(edLayout).plots[i]
    IN  /\ Editing
        /\ IF tool = "select"
           THEN selectedPlot' = Some(plot) /\ UNCHANGED edLayout
           ELSE IF tool = "erase"
           THEN /\ edLayout' = Some([Val(edLayout) EXCEPT
                       !.plots = SelectSeq(@, LAMBDA q : q.id /= plot.id)])
                /\ selectedPlot' = Null
           ELSE UNCHANGED <<edLayout, selectedPlot>>
        /\ PlotEditorAfter
        /\ lastEvent' = "other"
        /\ UNCHANGED <<role, engineVars, extVars, store, createdIds, hostVars, mapDrawVars, tool, isSaving, edIsDrawing,
                       edDrawingPoints, saveTimers, plotIds>>

MutFinishPlotReversed ==
    IF Len(edDrawingPoints) < 3
    THEN UNCHANGED <<edLayout, edDrawingPoints, edIsDrawing, tool, selectedPlot, plotIds,
                     plotForm, plotTimer>>
    ELSE LET newPlot == [id |-> plotIds + 1,
                         plotNumber |-> <<"Plot #", Len(Val(edLayout).plots) + 1>>,
                         status |-> "Available",
                         latlngs |-> [k \in DOMAIN edDrawingPoints |->
                                        edDrawingPoints[Len(edDrawingPoints) + 1 - k]]]
         IN  /\ plotIds < MaxPlots
             /\ plotIds' = plotIds + 1
             /\ edLayout' = Some([Val(edLayout) EXCEPT !.plots = Append(@, newPlot)])
             /\ edDrawingPoints' = <<>>
             /\ edIsDrawing' = FALSE
             /\ tool' = "select"
             /\ selectedPlot' = Some(newPlot)
             /\ PlotEditorAfter

handleFinishDrawing ==
    IF Len(edDrawingPoints) < 3
    THEN UNCHANGED <<edLayout, edDrawingPoints, edIsDrawing, tool, selectedPlot, plotIds,
                     plotForm, plotTimer>>
    ELSE LET newPlot == [id |-> plotIds + 1,
                         plotNumber |-> <<"Plot #", Len(Val(edLayout).plots) + 1>>,
                         status |-> "Available",
                         latlngs |-> edDrawingPoints]
         IN  /\ plotIds < MaxPlots
             /\ plotIds' = plotIds + 1
             /\ edLayout' = Some([Val(edLayout) EXCEPT !.plots = Append(@, newPlot)])
             /\ edDrawingPoints' = <<>>
             /\ edIsDrawing' = FALSE
             /\ tool' = "select"
             /\ selectedPlot' = Some(newPlot)
             /\ PlotEditorAfter

\* A click on the Finish Plot button: disabled={drawingPoints.length < 3}
EditorFinishClick ==
    /\ Editing /\ edIsDrawing
    /\ IF Len(edDrawingPoints) < 3
       THEN UNCHANGED <<edLayout, edDrawingPoints, edIsDrawing, tool, selectedPlot, plotIds,
                        plotForm, plotTimer>>
       ELSE handleFinishDrawing
    /\ lastEvent' = "edfinish"
    /\ UNCHANGED <<role, engineVars, extVars, store, createdIds, hostVars, mapDrawVars, isSaving, saveTimers>>

\* The Cancel button of the editor.
EditorCancelClick ==
    /\ Editing /\ edIsDrawing
    /\ edIsDrawing' = FALSE
    /\ edDrawingPoints' = <<>>
    /\ tool' = "select"
    /\ lastEvent' = "edcancel"
    /\ UNCHANGED <<role, engineVars, extVars, store, createdIds, hostVars, mapDrawVars, edLayout, selectedPlot, isSaving,
                   plotForm, plotTimer, saveTimers, plotIds>>

\* Save & Exit: disabled={isSaving || !hasChanges}; the save itself is SaveTimerFires.
handleSaveAndExit ==
    /\ Editing /\ ~isSaving /\ hasChanges
    /\ Len(saveTimers) < MaxTimers
    /\ isSaving' = TRUE
    /\ saveTimers' = Append(saveTimers, Val(edLayout))
    /\ lastEvent' = "other"
    /\ UNCHANGED <<role, engineVars, extVars, store, createdIds, hostVars, mapDrawVars, edLayout, selectedPlot, tool,
                   edIsDrawing, edDrawingPoints, plotForm, plotTimer, plotIds>>

\* The drawing machines of MapLayout and LayoutEditor and what hosts them.
\* The plots drawn in the exploration of the map's and the editor's drawing
\* machines together.
MaxDrawPlots == 1
NextDraw ==
    \/ handleDrawClick
    \/ \E p \in MapPoints : handleMapClick(p)
    \/ handleCancelClick
    \/ FinishClick
    \/ \E i \in DOMAIN layouts : handleLayoutSelect(i)
    \/ handleDeselect
    \/ \E r \in Roles : HostRoleChange(r)
    \/ handleEnterEditor
    \/ handleExitEditor
    \/ \E t \in Tools : handleToolSelect(t)
    \/ \E p \in EditorPoints : EditorMapClick(p)
    \/ \E i \in DOMAIN (IF Editing THEN Val(edLayout).plots ELSE <<>>) : PlotClick(i)
    \/ EditorFinishClick /\ plotIds' <= MaxDrawPlots
    \/ EditorCancelClick

\* The same with the editor's Save & Exit and its timer.
NextSave ==
    \/ NextDraw
    \/ handleSaveAndExit
    \/ SaveTimerFires

SpecSave == Init /\ [][NextSave]_vars

SpecDraw == Init /\ [][NextDraw]_vars

(***************************************************************************)
(* Properties of the drawing machines.                                     *)
(***************************************************************************)
\* C4: finish with 0, 1 or 2 buffered points emits nothing, creates no layout
\* and no plot, and leaves the buffer and the Drawing state as they were, in
\* MapLayout and in LayoutEditor.
C4_ShortFinishIsNoOp ==
    [][ /\ (lastEvent' = "finish" /\ Len(drawingPoints) < 3)
            => UNCHANGED <<layouts, selectedLayout, isDrawing, drawingPoints>>
        /\ (lastEvent' = "edfinish" /\ Len(edDrawingPoints) < 3)
            => UNCHANGED <<layouts, edLayout, selectedPlot, tool, edIsDrawing,
                           edDrawingPoints, plotIds>> ]_vars

\* C4 witness: Finish was clicked with two points in the buffer, which is
\* still there, still drawing.
C4_Witness == lastEvent = "finish" /\ isDrawing /\ Len(drawingPoints) = 2

\* C5: cancel in the Drawing state leaves the machine idle with an empty
\* buffer and creates no layout and no plot, in MapLayout and in LayoutEditor.
C5_CancelResets ==
    [][ /\ lastEvent' = "cancel"
            => (~isDrawing' /\ drawingPoints' = <<>> /\ layouts' = layouts)
        /\ lastEvent' = "edcancel"
            => (~edIsDrawing' /\ edDrawingPoints' = <<>> /\ layouts' = layouts
                /\ edLayout' = edLayout /\ plotIds' = plotIds) ]_vars

\* C5 witness: Cancel was clicked while a layout drawn earlier exists.
C5_Witness ==
    lastEvent = "cancel" /\ ~isDrawing /\ drawingPoints = <<>> /\ layouts /= <<>>

\* C6: finish with n >= 3 buffered points appends exactly one layout whose
\* boundary is the buffer in click order, Available, without plots, selects
\* it, and leaves the machine idle with an empty buffer.
C6_FinishCreatesLayout ==
    [][ (lastEvent' = "finish" /\ Len(drawingPoints) >= 3)
        => /\ Len(layouts') = Len(layouts) + 1
           /\ SubSeq(layouts', 1, Len(layouts)) = layouts
           /\ layouts'[Len(layouts')].latlngs = drawingPoints
           /\ layouts'[Len(layouts')].status = "Available"
           /\ layouts'[Len(layouts')].plots = <<>>
           /\ selectedLayout' = Some(layouts'[Len(layouts')])
           /\ ~isDrawing' /\ drawingPoints' = <<>> ]_vars

\* C6 witness: a layout was just finished from three clicks that are not the
\* same read backwards.
C6_Witness ==
    /\ lastEvent = "finish" /\ ~isDrawing
    /\ layouts /= <<>>
    /\ layouts[Len(layouts)].latlngs = <<LatLng(1, 1), LatLng(1, 1), LatLng(1, 2)>>
    /\ selectedLayout = Some(layouts[Len(layouts)])


(***************************************************************************)
(* The shape-canvas editors: DrawingToolsPanel, LayoutDrawingPanel and     *)
(* CompactLayoutEditor.  Coordinates are canvas pixels: x = e.clientX -    *)
(* rect.left, y = e.clientY - rect.top.                                    *)
(***************************************************************************)
Panels == {"DrawingToolsPanel", "LayoutDrawingPanel", "CompactLayoutEditor"}

\* Results of generateId (Math.random().toString(36).substr(2, 9)): any string
\* of up to nine base-36 digits, the empty one for Math.random() = 0; nothing
\* keeps two calls from returning the same string.
ShapeIds == {"", "a", "b"}

\* Canvas positions of clicks and presses.
ClickPoints == {Pt(0, 0), Pt(20, 20)}

\* The tools the exploration switches between: the select tool, the pencil
\* and one stamp.
ExploredTools == {"select", "pencil", "square"}

\* The ToolButtons each editor renders.
ToolButtons(p) ==
    IF p = "LayoutDrawingPanel"
    THEN {"select", "pencil", "square", "rectangle"}
    ELSE {"select", "pencil", "square", "rectangle", "road", "tree"}

\* The stamp cases of handleCanvasClick: offset of the top-left corner from
\* the click, size and colour; Null when the switch has no case for the tool.
Stamp(dx, dy, w, h, c) == Some([dx |-> dx, dy |-> dy, width |-> w, height |-> h, color |-> c])
StampOf(p, t) ==
    IF p = "DrawingToolsPanel" THEN
        CASE t = "square" -> Stamp(-25, -25, 50, 50, "#3b82f6")
          [] t = "rectangle" -> Stamp(-40, -20, 80, 40, "#10b981")
          [] t = "road" -> Stamp(-50, -8, 100, 16, "#6b7280")
          [] t = "tree" -> Stamp(-15, -20, 30, 40, "#059669")
          [] OTHER -> Null
    ELSE IF p = "LayoutDrawingPanel" THEN
        CASE t = "square" -> Stamp(0, 0, 40, 40, "#6b7280")
          [] t = "rectangle" -> Stamp(0, 0, 80, 40, "#6b7280")
          [] OTHER -> Null
    ELSE
        CASE t = "square" -> Stamp(0, 0, 30, 30, "#6b7280")
          [] t = "rectangle" -> Stamp(0, 0, 50, 25, "#6b7280")
          [] t = "road" -> Stamp(0, 0, 60, 12, "#374151")
          [] t = "tree" -> Stamp(0, 0, 20, 25, "#059669")
          [] OTHER -> Null

NewShape(p, t, e, id) ==
    LET d == Val(StampOf(p, t))
    IN  [id |-> id, type |-> t, x |-> e.x + d.dx, y |-> e.y + d.dy,
         width |-> d.width, height |-> d.height, rotation |-> 0,
         color |-> d.color, isSelected |-> FALSE]

\* The bounding-box test of the select case.
Contains(shape, e) ==
    /\ e.x >= shape.x /\ e.x <= shape.x + shape.width
    /\ e.y >= shape.y /\ e.y <= shape.y + shape.height

\* shapes.find(pred): the index of the first match, 0 when there is none.
FindShape(shs, e) ==
    IF \E i \in DOMAIN shs : Contains(shs[i], e)
    THEN CHOOSE i \in DOMAIN shs :
             Contains(shs[i], e) /\ \A j \in 1..(i - 1) : ~Contains(shs[j], e)
    ELSE 0
FindShapeById(shs, id) ==
    IF \E i \in DOMAIN shs : shs[i].id = id
    THEN CHOOSE i \in DOMAIN shs : shs[i].id = id /\ \A j \in 1..(i - 1) : shs[j].id /= id
    ELSE 0

\* selectedShapeId as a condition: null and the empty string are falsy.
Truthy(o) == o /= Null /\ Val(o) /= ""

\* prev.map(shape => ({...shape, isSelected: shape.id === id})), id undefined
\* when given as Null.
MarkSelected(shs, id) ==
    [i \in DOMAIN shs |-> [shs[i] EXCEPT !.isSelected = (id /= Null /\ shs[i].id = Val(id))]]

shapeGestureVars == <<isDragging, isResizing, dragStart, shapeResizeStart>>

\* setCurrentTool from a ToolButton.
setCurrentTool(t) ==
    /\ t \in ToolButtons(panel)
    /\ currentTool' = t
    /\ UNCHANGED <<panel, shapes, selectedShapeId, shapeGestureVars, canvasPoints>>
    /\ UNCHANGED <<role, engineVars, drawVars, otherExt, store, createdIds>>

\* handleCanvasClick: a click anywhere on the canvas, on a shape or not
\* (clicks on shapes bubble to the canvas).
handleCanvasClick(e, id) ==
    /\ IF currentTool = "pencil" THEN
           /\ Len(canvasPoints) < MaxCanvasPoints
           /\ canvasPoints' = Append(canvasPoints, [x |-> e.x, y |-> e.y, id |-> id])
           /\ UNCHANGED <<shapes, selectedShapeId>>
       ELSE IF StampOf(panel, currentTool) /= Null THEN
           /\ Len(shapes) < MaxShapes
           /\ shapes' = Append(shapes, NewShape(panel, currentTool, e, id))
           /\ UNCHANGED <<canvasPoints, selectedShapeId>>
       ELSE IF currentTool = "select" THEN
           LET i == FindShape(shapes, e)
               clickedId == IF i = 0 THEN Null ELSE Some(shapes[i].id)
           IN  /\ selectedShapeId' = IF Truthy(clickedId) THEN clickedId ELSE Null
               /\ shapes' = MarkSelected(shapes, clickedId)
               /\ UNCHANGED canvasPoints
       ELSE UNCHANGED <<shapes, selectedShapeId, canvasPoints>>
    /\ UNCHANGED <<panel, currentTool, shapeGestureVars>>
    /\ UNCHANGED <<role, engineVars, drawVars, otherExt, store, createdIds>>

\* The element a press at e lands on: the last-rendered shape whose box
\* contains e (0 when the press is on the bare canvas).
TopShapeAt(shs, e) ==
    IF \E i \in DOMAIN shs : Contains(shs[i], e)
    THEN CHOOSE i \in DOMAIN shs :
             Contains(shs[i], e) /\ \A j \in (i + 1)..Len(shs) : ~Contains(shs[j], e)
    ELSE 0

\* handleMouseDown(e, shape.id) on the body of shape i.
handleMouseDown(e, i) ==
    /\ i \in DOMAIN shapes /\ TopShapeAt(shapes, e) = i
    /\ currentTool = "select"
    /\ LET shapeId == shapes[i].id
           shape == shapes[FindShapeById(shapes, shapeId)]
       IN  /\ isDragging' = TRUE
           /\ selectedShapeId' = Some(shapeId)
           /\ IF panel = "DrawingToolsPanel"
              THEN /\ dragStart' = Some(Pt(e.x - shape.x, e.y - shape.y))
                   /\ shapes' = MarkSelected(shapes, Some(shapeId))
              ELSE /\ dragStart' = Some(e)
                   /\ UNCHANGED shapes
    /\ UNCHANGED <<panel, currentTool, isResizing, shapeResizeStart, canvasPoints>>
    /\ UNCHANGED <<role, engineVars, drawVars, otherExt, store, createdIds>>

\* handleMouseDown(e, shape.id, true) on the resize handle of shape i, which
\* DrawingToolsPanel renders at the bottom-right corner of a selected shape.
handleResizeHandleMouseDown(i) ==
    /\ panel = "DrawingToolsPanel"
    /\ i \in DOMAIN shapes /\ selectedShapeId = Some(shapes[i].id)
    /\ currentTool = "select"
    /\ LET shapeId == shapes[i].id
           shape == shapes[FindShapeById(shapes, shapeId)]
           e == Pt(shapes[i].x + shapes[i].width, shapes[i].y + shapes[i].height)
       IN  /\ isResizing' = TRUE
           /\ shapeResizeStart' = Some([x |-> e.x, y |-> e.y,
                                        width |-> shape.width, height |-> shape.height])
           /\ selectedShapeId' = Some(shapeId)
           /\ shapes' = MarkSelected(shapes, Some(shapeId))
    /\ UNCHANGED <<panel, currentTool, isDragging, dragStart, canvasPoints>>
    /\ UNCHANGED <<role, engineVars, drawVars, otherExt, store, createdIds>>

\* handleMouseUp, the document listener registered while a gesture is on.
ShapeMouseUp ==
    /\ isDragging \/ isResizing
    /\ isDragging' = FALSE /\ dragStart' = Null
    /\ IF panel = "DrawingToolsPanel"
       THEN isResizing' = FALSE /\ shapeResizeStart' = Null
       ELSE UNCHANGED <<isResizing, shapeResizeStart>>
    /\ UNCHANGED <<panel, currentTool, shapes, selectedShapeId, canvasPoints>>
    /\ UNCHANGED <<role, engineVars, drawVars, otherExt, store, createdIds>>

\* The eraser button is rendered only while a shape is selected, and in
\* DrawingToolsPanel only while the current tool is the eraser.
EraserVisible ==
    /\ Truthy(selectedShapeId)
    /\ panel = "DrawingToolsPanel" => currentTool = "eraser"

handleEraser ==
    /\ EraserVisible
    /\ shapes' = SelectSeq(shapes, LAMBDA sh : sh.id /= Val(selectedShapeId))
    /\ selectedShapeId' = Null
    /\ UNCHANGED <<panel, currentTool, shapeGestureVars, canvasPoints>>
    /\ UNCHANGED <<role, engineVars, drawVars, otherExt, store, createdIds>>

\* handleClear (CompactLayoutEditor has no Clear button).
handleClear ==
    /\ panel /= "CompactLayoutEditor"
    /\ canvasPoints' = <<>> /\ shapes' = <<>> /\ selectedShapeId' = Null
    /\ UNCHANGED <<panel, currentTool, shapeGestureVars>>
    /\ UNCHANGED <<role, engineVars, drawVars, otherExt, store, createdIds>>

NextShape ==
    \/ \E t \in ToolButtons(panel) \cap ExploredTools : setCurrentTool(t)
    \/ \E e \in ClickPoints, id \in ShapeIds : handleCanvasClick(e, id)
    \/ \E e \in ClickPoints, i \in DOMAIN shapes : handleMouseDown(e, i)
    \/ \E i \in DOMAIN shapes : handleResizeHandleMouseDown(i)
    \/ ShapeMouseUp
    \/ handleEraser
    \/ handleClear

\* Any of the three editors, freshly mounted.
InitShape ==
    /\ InitOverlay /\ InitDraw /\ InitStarted
    /\ panel \in Panels
    /\ ShapeEditorInit

SpecShape == InitShape /\ [][NextShape]_vars

\* The shapes a select click leaves marked.
SelectedShapes(shs) == {i \in DOMAIN shs : shs[i].isSelected}

\* C11: a canvas click with the select tool leaves at most one shape marked
\* selected, and a click inside no shape's bounding box leaves
\* selectedShapeId null and every shape unmarked.
C11_SelectClickMarksAtMostOne ==
    [][ \A e \in ClickPoints :
          (currentTool = "select" /\ handleCanvasClick(e, "a"))
          => /\ Cardinality(SelectedShapes(shapes')) <= 1
             /\ (FindShape(shapes, e) = 0
                 => selectedShapeId' = Null /\ SelectedShapes(shapes') = {}) ]_vars


(***************************************************************************)
(* The layout data layer: PlannerApp (overlay build) with PlotDetailsPanel *)
(* and localStorage.                                                       *)
(***************************************************************************)
INITIAL_LAYOUTS == <<>>

Triangle == <<LatLng(1, 1), LatLng(1, 2), LatLng(2, 1)>>
StoredLayout(id) ==
    [id |-> id, name |-> <<"New Layout", id>>, vendorName |-> "N/A",
     status |-> "Available", latlngs |-> Triangle, plots |-> <<>>]

\* What localStorage can hold under 'siteLayouts' when PlannerApp starts:
\* nothing, the empty string, a text that is not JSON, or a list saved by an
\* earlier session.
StoredAtStart ==
    {Null,
     Some([kind |-> "empty", value |-> <<>>]),
     Some([kind |-> "corrupt", value |-> <<>>]),
     Some(Stringify(<<>>)),
     Some(Stringify(<<StoredLayout(2)>>)),
     Some(Stringify(<<StoredLayout(1), StoredLayout(3)>>))}

\* The load effect: what it passes to setLayouts.
MutLoadIgnoresStore(st) == INITIAL_LAYOUTS
LoadLayouts(st) ==
    IF storage = "denied" THEN INITIAL_LAYOUTS             \* getItem throws
    ELSE IF ~StoreTruthy(st) THEN INITIAL_LAYOUTS
    ELSE IF ~Parses(Val(st)) THEN INITIAL_LAYOUTS          \* JSON.parse throws
    ELSE JSONparse(Val(st))

\* The first commit: the load effect queues the list it read, then the save
\* effect runs with the list of the first render, which is empty.
Mount ==
    /\ phase = "mounting"
    /\ loaded' = Some(LoadLayouts(store))
    /\ store' = SaveAttempt(store, layouts)
    /\ phase' = "loading"
    /\ lastEvent' = "other"
    /\ UNCHANGED <<role, engineVars, hostVars, mapDrawVars, editorVars, saveTimers, plotIds>>
    /\ UNCHANGED <<shapeVars, storage, formData, panelIsSaving, formTimers, createdIds, uploadVars, viewVars>>

\* The re-render with the loaded list, and the save effect for it.
LoadCommit ==
    /\ phase = "loading"
    /\ layouts' = Val(loaded)
    /\ loaded' = Null
    /\ store' = SaveAttempt(store, layouts')
    /\ phase' = "ready"
    /\ lastEvent' = "other"
    /\ UNCHANGED <<role, engineVars, selectedLayout, editingLayout, mapDrawVars, editorVars,
                   saveTimers, plotIds>>
    /\ UNCHANGED <<shapeVars, storage, formData, panelIsSaving, formTimers, createdIds, uploadVars, viewVars>>

\* The storage runs full, or space is freed.
StorageChange ==
    /\ storage \in {"ok", "full"}
    /\ storage' = IF storage = "ok" THEN "full" ELSE "ok"
    /\ lastEvent' = "other"
    /\ UNCHANGED <<role, engineVars, hostVars, mapDrawVars, editorVars, saveTimers, plotIds>>
    /\ UNCHANGED <<shapeVars, store, phase, loaded, formData, panelIsSaving, formTimers, createdIds, uploadVars, viewVars>>

Ready == phase = "ready" /\ role = "Admin"
createFrame == <<role, editingLayout, mapDrawVars, editorVars, saveTimers, plotIds,
                 shapeVars, storage, phase, loaded, uploadVars, viewVars>>
dataFrame == <<createFrame, createdIds>>

\* The form effect of PlotDetailsPanel, which runs when the layout prop is
\* another non-null record than before.
FormAfter(sel) ==
    IF sel /= Null /\ sel /= selectedLayout THEN FormOf(Val(sel)) ELSE formData

\* onLayoutSelect={setSelectedLayout}: a click on a polygon or a list entry.
onLayoutSelect(i) ==
    /\ Ready
    /\ selectedLayout' = Some(layouts[i])
    /\ formData' = FormAfter(selectedLayout')
    /\ lastEvent' = "other"
    /\ UNCHANGED <<engineVars, layouts, store, panelIsSaving, formTimers, dataFrame>>

\* onClose / onDeselect: setSelectedLayout(null)
onClose ==
    /\ Ready
    /\ selectedLayout /= Null
    /\ selectedLayout' = Null
    /\ lastEvent' = "other"
    /\ UNCHANGED <<engineVars, layouts, store, formData, panelIsSaving, formTimers, dataFrame>>

Statuses == {"Available", "Pending", "Sold"}
ExploredStatuses == {"Available", "Sold"}

handleStatusChange(newStatus) ==
    /\ Ready
    /\ selectedLayout /= Null
    /\ formData' = [formData EXCEPT !.status = newStatus]
    /\ lastEvent' = "other"
    /\ UNCHANGED <<engineVars, hostVars, store, panelIsSaving, formTimers, dataFrame>>

\* the hasChanges effect
formHasChanges == selectedLayout /= Null /\ formData /= FormOf(Val(selectedLayout))

\* handleSaveChanges up to its await: the timer keeps the record the click
\* saw merged with the form, and the handleLayoutUpdate of that render with
\* its layouts.
handleSaveChanges ==
    /\ Ready
    /\ formHasChanges /\ ~panelIsSaving
    /\ Len(formTimers) < MaxTimers
    /\ panelIsSaving' = TRUE
    /\ formTimers' = Append(formTimers,
           [layouts |-> layouts,
            updatedLayout |-> [Val(selectedLayout) EXCEPT !.name = formData.name,
                                                          !.vendorName = formData.vendorName,
                                                          !.status = formData.status]])
    /\ lastEvent' = "other"
    /\ UNCHANGED <<engineVars, hostVars, store, formData, dataFrame>>

\* handleLayoutUpdate: layouts.map(p => p.id === updatedLayout.id ? updatedLayout : p)
MutUpdateOverwritesAll(ls, updatedLayout) == [i \in DOMAIN ls |-> updatedLayout]
handleLayoutUpdate(ls, updatedLayout) ==
    [i \in DOMAIN ls |-> IF ls[i].id = updatedLayout.id THEN updatedLayout ELSE ls[i]]

\* The 500 ms timer of handleSaveChanges fires: onUpdate, setIsSaving(false).
FormTimerFires ==
    /\ phase = "ready"
    /\ formTimers /= <<>>
    /\ LET t == Head(formTimers)
       IN  /\ layouts' = handleLayoutUpdate(t.layouts, t.updatedLayout)
           /\ selectedLayout' = Some(t.updatedLayout)
    \* the [layout] effect runs in a mounted panel only
    /\ formData' = IF Editing THEN formData ELSE FormAfter(selectedLayout')
    /\ formTimers' = Tail(formTimers)
    /\ panelIsSaving' = FALSE
    /\ store' = SaveAttempt(store, layouts')
    /\ lastEvent' = "other"
    /\ UNCHANGED <<engineVars, dataFrame>>

\* handleLayoutDelete from the trash button of list entry i; confirmed is the
\* answer to window.confirm.
MutDeleteUnconfirmed(i, confirmed) ==
    /\ Ready
    /\ LET layoutId == layouts[i].id
       IN  /\ layouts' = SelectSeq(layouts, LAMBDA l : l.id /= layoutId)
           /\ selectedLayout' = IF selectedLayout /= Null /\ Val(selectedLayout).id = layoutId
                                THEN Null ELSE selectedLayout
           /\ store' = SaveAttempt(store, layouts')
           /\ lastEvent' = IF confirmed THEN "delete" ELSE "declined"
    /\ UNCHANGED <<engineVars, formData, panelIsSaving, formTimers, dataFrame>>
MutDeleteKeepsSelection(i, confirmed) ==
    /\ Ready
    /\ LET layoutId == layouts[i].id
       IN  IF confirmed
           THEN /\ layouts' = SelectSeq(layouts, LAMBDA l : l.id /= layoutId)
                /\ store' = SaveAttempt(store, layouts')
                /\ lastEvent' = "other"
                /\ UNCHANGED selectedLayout
           ELSE /\ UNCHANGED <<layouts, selectedLayout, store>>
                /\ lastEvent' = "declined"
    /\ UNCHANGED <<engineVars, formData, panelIsSaving, formTimers, dataFrame>>
handleLayoutDelete(i, confirmed) ==
    /\ Ready
    /\ LET layoutId == layouts[i].id
       IN  IF confirmed
           THEN /\ layouts' = SelectSeq(layouts, LAMBDA l : l.id /= layoutId)
                /\ selectedLayout' = IF selectedLayout /= Null /\ Val(selectedLayout).id = layoutId
                                     THEN Null ELSE selectedLayout
                /\ store' = SaveAttempt(store, layouts')
                /\ lastEvent' = "other"
           ELSE /\ UNCHANGED <<layouts, selectedLayout, store>>
                /\ lastEvent' = "declined"
    /\ UNCHANGED <<engineVars, formData, panelIsSaving, formTimers, dataFrame>>

\* newId of the three creating handlers
MutNextIdByLength(ls) == Len(ls) + 1
NextId(ls) == IF Len(ls) > 0 THEN MaxId(ls) + 1 ELSE 1

\* handleDrawingFinish, called with a finished boundary.
DrawingFinish(latlngs) ==
    /\ Ready
    /\ Len(layouts) < MaxRecords /\ NextId(layouts) <= MaxLayoutId
    /\ handleDrawingFinish(latlngs)
    /\ formData' = FormAfter(selectedLayout')
    /\ store' = SaveAttempt(store, layouts')
    /\ lastEvent' = "other"
    /\ UNCHANGED <<engineVars, panelIsSaving, formTimers, createFrame>>

LayoutNames == {<<"Plot A">>}
VendorNames == {"V"}

handleCreateLayout(name, vendorName) ==
    /\ Ready
    /\ Len(layouts) < MaxRecords /\ NextId(layouts) <= MaxLayoutId
    /\ layouts' = Append(layouts,
           [id |-> NextId(layouts), name |-> name, vendorName |-> vendorName,
            status |-> "Available", latlngs |-> <<>>, plots |-> <<>>])
    /\ createdIds' = createdIds \cup {NextId(layouts)}
    /\ store' = SaveAttempt(store, layouts')
    /\ lastEvent' = "other"
    /\ UNCHANGED <<engineVars, selectedLayout, formData, panelIsSaving, formTimers, createFrame>>

\* const offset = 0.001, in the units of the model's coordinates
BoxOffset == 1
handleCreateLayoutFromOverlay(name, vendorName, overlayId) ==
    /\ Ready
    /\ Len(layouts) < MaxRecords /\ NextId(layouts) <= MaxLayoutId
    /\ IndexOf(svgOverlays, overlayId) /= 0
    /\ LET position == OverlayOf(overlayId).position
           latlngs == <<LatLng(position.lat - BoxOffset, position.lng - BoxOffset),
                        LatLng(position.lat - BoxOffset, position.lng + BoxOffset),
                        LatLng(position.lat + BoxOffset, position.lng + BoxOffset),
                        LatLng(position.lat + BoxOffset, position.lng - BoxOffset)>>
       IN  layouts' = Append(layouts,
               [id |-> NextId(layouts), name |-> name, vendorName |-> vendorName,
                status |-> "Available", latlngs |-> latlngs, plots |-> <<>>])
    /\ fixedOverlay' = Null
    /\ createdIds' = createdIds \cup {NextId(layouts)}
    /\ store' = SaveAttempt(store, layouts')
    /\ lastEvent' = "other"
    /\ UNCHANGED <<svgOverlays, gestureVars, fixedOverlays, currentFixedOverlay, winListeners>>
    /\ UNCHANGED <<selectedLayout, formData, panelIsSaving, formTimers, createFrame>>

DataCenters == {LatLng(0, 2)}

\* PlannerApp's start and the storage, with the two operations that need
\* nothing but the list.
NextStart ==
    \/ Mount
    \/ LoadCommit
    \/ StorageChange
    \/ \E i \in DOMAIN layouts, confirmed \in BOOLEAN : handleLayoutDelete(i, confirmed)
    \/ \E n \in LayoutNames, v \in VendorNames : handleCreateLayout(n, v)

\* PlannerApp before its first commit, over what the storage may hold.
InitStart ==
    /\ InitOverlay /\ InitDraw
    /\ panel = "DrawingToolsPanel" /\ ShapeEditorInit
    /\ store \in StoredAtStart /\ storage \in {"ok", "full", "denied"}
    /\ createdIds = {}
    /\ phase = "mounting" /\ loaded = Null
    /\ PanelInit /\ ViewInit

SpecStart == InitStart /\ [][NextStart]_vars

\* Select, create and delete on the list of a started PlannerApp whose
\* storage works.
NextData ==
    \/ \E i \in DOMAIN layouts : onLayoutSelect(i)
    \/ onClose
    \/ \E i \in DOMAIN layouts, confirmed \in BOOLEAN : handleLayoutDelete(i, confirmed)
    \/ DrawingFinish(Triangle)
    \/ \E n \in LayoutNames, v \in VendorNames : handleCreateLayout(n, v)
    \/ \E n \in LayoutNames, v \in VendorNames, o \in OverlayIds :
          handleCreateLayoutFromOverlay(n, v, o)
    \/ \E c \in DataCenters : phase = "ready" /\ AddOverlay(c)

\* The lists a started PlannerApp has loaded: their ids are pairwise distinct.
StartLists == {<<>>, <<StoredLayout(2)>>, <<StoredLayout(1), StoredLayout(3)>>}

\* PlannerApp after its start, with the list it loaded stored.
InitData ==
    /\ InitOverlay /\ InitDrawRest
    /\ panel = "DrawingToolsPanel" /\ ShapeEditorInit
    /\ layouts \in StartLists
    /\ storage = "ok" /\ store = SaveAttempt(Null, layouts)
    /\ createdIds = {}
    /\ phase = "ready" /\ loaded = Null
    /\ PanelInit /\ ViewInit

SpecData == InitData /\ [][NextData]_vars

\* The same with the form of PlotDetailsPanel and its delayed update.
NextUpdate ==
    \/ NextData
    \/ \E st \in ExploredStatuses : handleStatusChange(st)
    \/ handleSaveChanges
    \/ FormTimerFires

SpecUpdate == InitData /\ [][NextUpdate]_vars

(***************************************************************************)
(* Properties of the layout data layer.                                    *)
(***************************************************************************)
\* ls without its i-th record
WithoutIndex(ls, i) == [j \in 1..(Len(ls) - 1) |-> IF j < i THEN ls[j] ELSE ls[j + 1]]

\* C12: a confirmed handleLayoutDelete(id) removes exactly the layout with
\* that id: the other layouts are kept, unchanged and in order; the selection
\* becomes null if the deleted layout was the selected one and is unchanged
\* otherwise.
C12_ConfirmedDeleteRemovesExactlyThatLayout ==
    [][ \A i \in DOMAIN layouts :
          handleLayoutDelete(i, TRUE)
          => /\ layouts' = WithoutIndex(layouts, i)
             /\ \A j \in DOMAIN layouts' : layouts'[j].id /= layouts[i].id
             /\ (selectedLayout /= Null /\ Val(selectedLayout).id = layouts[i].id)
                  => selectedLayout' = Null
             /\ ~(selectedLayout /= Null /\ Val(selectedLayout).id = layouts[i].id)
                  => selectedLayout' = selectedLayout ]_vars

\* Layout 1 of the stored list <<1, 3>> was deleted while layout 3 was
\* selected: layout 3 is still there and still selected.
C12_Witness ==
    /\ layouts = <<StoredLayout(3)>>
    /\ selectedLayout = Some(StoredLayout(3))
    /\ createdIds = {}

\* C13: when the confirmation dialog of handleLayoutDelete is declined, the
\* layout list, the selection and the persisted store are unchanged.
C13_DeclinedDeleteChangesNothing ==
    [][ \A i \in DOMAIN layouts :
          handleLayoutDelete(i, FALSE)
          => /\ layouts' = layouts
             /\ selectedLayout' = selectedLayout
             /\ store' = store ]_vars

\* A delete was declined with two layouts in the list and one selected.
C13_Witness ==
    /\ lastEvent = "declined"
    /\ Len(layouts) = 2
    /\ selectedLayout /= Null

\* The id the creating handlers are specified to give: the largest id in the
\* list plus one, or 1 for the empty list.
IdsOf(ls) == {ls[j].id : j \in DOMAIN ls}
SpecifiedId(ls) ==
    IF ls = <<>> THEN 1
    ELSE 1 + (CHOOSE m \in IdsOf(ls) : \A k \in IdsOf(ls) : k <= m)

\* A step of one of the three handlers that create a layout.
CreateStep ==
    \/ DrawingFinish(Triangle)
    \/ \E n \in LayoutNames, v \in VendorNames : handleCreateLayout(n, v)
    \/ \E n \in LayoutNames, v \in VendorNames, o \in OverlayIds :
          handleCreateLayoutFromOverlay(n, v, o)

\* C14: handleDrawingFinish, handleCreateLayout and
\* handleCreateLayoutFromOverlay each append one layout whose id is the
\* largest id currently in the list plus one, or 1 when the list is empty.
C14_CreatedIdIsMaxPlusOne ==
    [][ CreateStep
        => /\ Len(layouts') = Len(layouts) + 1
           /\ SubSeq(layouts', 1, Len(layouts)) = layouts
           /\ layouts'[Len(layouts')].id = SpecifiedId(layouts) ]_vars

\* A layout was created from an overlay next to stored layout 2 and got
\* id 3, although the list then held one layout.
C14_Witness ==
    /\ Len(layouts) = 2
    /\ layouts[1] = StoredLayout(2)
    /\ layouts[2].id = 3
    /\ Len(layouts[2].latlngs) = 4

\* C15: in every state reached by layout creates, updates and deletes from a
\* list with distinct ids, the layouts in the list have pairwise distinct ids.
C15_IdsPairwiseDistinct ==
    \A i, j \in DOMAIN layouts : i /= j => layouts[i].id /= layouts[j].id

\* Two layouts after a create and an update of the first layout's status.
C15_Witness ==
    /\ Len(layouts) = 2
    /\ layouts[1].status = "Sold"
    /\ createdIds /= {}
    /\ formTimers = <<>>

\* C16: layout ids are monotonically assigned: each newly created layout gets
\* an id strictly greater than the id given to every layout created earlier
\* in the session, so the id of a deleted layout is never given again.
C16_CreatedIdsIncrease ==
    [][ CreateStep
        => \A k \in createdIds : layouts'[Len(layouts')].id > k ]_vars

\* A step of a started PlannerApp that sets the layout list.
ListStep ==
    \/ \E i \in DOMAIN layouts : handleLayoutDelete(i, TRUE)
    \/ \E n \in LayoutNames, v \in VendorNames : handleCreateLayout(n, v)

PersistedOrEmpty ==
    IF storage /= "denied" /\ store /= Null /\ Val(store).kind = "list"
    THEN Val(store).value
    ELSE <<>>

\* C18: loading at start-up yields the persisted list when one is stored and
\* readable, and the empty list (INITIAL_LAYOUTS) when the store has no entry
\* or when reading or parsing it fails; that list becomes the layout list.
C18_LoadYieldsPersistedOrEmpty ==
    [][ /\ Mount => loaded' = Some(PersistedOrEmpty)
        /\ LoadCommit => layouts' = Val(loaded) ]_vars

\* The stored list <<1, 3>> has been loaded.
C18_Witness ==
    /\ phase = "ready"
    /\ layouts = <<StoredLayout(1), StoredLayout(3)>>
    /\ createdIds = {}

(***************************************************************************)
(* PlotDetailsPanel: the SVG upload.                                       *)
(***************************************************************************)
MaxReaders == 2

\* The texts of the files a user may choose, in pieces: an empty file, plain
\* text, an SVG document, and an HTML page with an svg element inside.
FileTexts ==
    {<<>>, <<"hello">>, SvgContent, <<"<p>", "<svg", "/>", "</p>">>}

\* text && text.includes('<svg')
IncludesSvg(text) == text /= <<>> /\ \E k \in DOMAIN text : text[k] = "<svg"

InvalidSvgMessage == "File is not a valid SVG."

\* handleSvgFileChange: file is Null when the dialog is closed without a file.
handleSvgFileChange(file) ==
    /\ role = "Admin"
    /\ uploadError' = Null
    /\ svgFile' = file
    /\ IF file /= Null
       THEN /\ Len(readers) < MaxReaders
            /\ readers' = Append(readers, Val(file))
            /\ UNCHANGED svgPreview
       ELSE /\ svgPreview' = Null
            /\ UNCHANGED readers
    /\ UNCHANGED <<role, engineVars, drawVars, shapeVars, dataVars, viewVars, store, createdIds>>

\* reader.onload of the k-th FileReader still reading; the readers of two
\* files finish in either order.
FileLoaded(k) ==
    /\ k \in DOMAIN readers
    /\ LET text == readers[k]
       IN  IF IncludesSvg(text)
           THEN /\ svgPreview' = Some(text)
                /\ UNCHANGED uploadError
           ELSE /\ svgPreview' = Null
                /\ uploadError' = Some(InvalidSvgMessage)
    /\ readers' = [j \in 1..(Len(readers) - 1) |-> IF j < k THEN readers[j] ELSE readers[j + 1]]
    /\ UNCHANGED <<role, engineVars, drawVars, shapeVars, dataVars, viewVars, store, createdIds, svgFile>>

\* handleUploadSvgToMap with PlannerApp's handleAddSvgOverlay: the handler
\* acts only on a preview (the button is also disabled without one).
MutUploadWithoutPreview(mapCenter) ==
    /\ role = "Admin"
    /\ Len(svgOverlays) < MaxOverlays
    /\ svgOverlays' = Append(svgOverlays,
           [id |-> Len(svgOverlays) + 1,
            svgContent |-> IF svgPreview /= Null THEN Val(svgPreview) ELSE <<>>,
            position |-> mapCenter, scale |-> Fin(Int2Num(1)), rotation |-> 0])
    /\ winListeners' = Register(winListeners, AllEffects, draggingId, resizingId, rotatingId)
    /\ svgFile' = Null /\ svgPreview' = Null /\ uploadError' = Null
    /\ UNCHANGED <<role, gestureVars, fixVars, readers>>
    /\ UNCHANGED <<drawVars, shapeVars, dataVars, viewVars, store, createdIds>>
handleUploadSvgToMap(mapCenter) ==
    /\ role = "Admin"
    /\ IF svgPreview /= Null
       THEN /\ Len(svgOverlays) < MaxOverlays
            /\ svgOverlays' = Append(svgOverlays,
                   [id |-> Len(svgOverlays) + 1, svgContent |-> Val(svgPreview),
                    position |-> mapCenter, scale |-> Fin(Int2Num(1)), rotation |-> 0])
            /\ winListeners' = Register(winListeners, AllEffects,
                                        draggingId, resizingId, rotatingId)
            /\ svgFile' = Null /\ svgPreview' = Null /\ uploadError' = Null
       ELSE UNCHANGED <<svgOverlays, winListeners, svgFile, svgPreview, uploadError>>
    /\ UNCHANGED <<role, gestureVars, fixVars, readers>>
    /\ UNCHANGED <<drawVars, shapeVars, dataVars, viewVars, store, createdIds>>

NextUpload ==
    \/ \E t \in FileTexts : handleSvgFileChange(Some(t))
    \/ handleSvgFileChange(Null)
    \/ \E k \in 1..MaxReaders : FileLoaded(k)
    \/ \E c \in MapCenters : handleUploadSvgToMap(c)

SpecUpload == Init /\ [][NextUpload]_vars

\* C19: a file whose text does not contain '<svg' is rejected when it has
\* been read: the validation message is set, no preview is kept and no
\* overlay is added; add-to-map without a preview adds nothing; the number of
\* overlays changes only when a validated preview exists, and then exactly
\* one overlay with that content, scale 1 and rotation 0 is appended.
C19_InvalidUploadRejected ==
    [][ /\ \A k \in DOMAIN readers :
              (~IncludesSvg(readers[k]) /\ FileLoaded(k))
              => /\ uploadError' = Some(InvalidSvgMessage)
                 /\ svgPreview' = Null
                 /\ svgOverlays' = svgOverlays
        /\ \A c \in MapCenters :
              (svgPreview = Null /\ handleUploadSvgToMap(c)) => svgOverlays' = svgOverlays
        /\ Len(svgOverlays') /= Len(svgOverlays)
              => /\ svgPreview /= Null
                 /\ IncludesSvg(Val(svgPreview))
                 /\ Len(svgOverlays') = Len(svgOverlays) + 1
                 /\ SubSeq(svgOverlays', 1, Len(svgOverlays)) = svgOverlays
                 /\ svgOverlays'[Len(svgOverlays')].svgContent = Val(svgPreview)
                 /\ svgOverlays'[Len(svgOverlays')].scale = Fin(Int2Num(1))
                 /\ svgOverlays'[Len(svgOverlays')].rotation = 0 ]_vars

\* An overlay was added from a validated preview, and a file chosen after it
\* has been read and rejected.
C19_Witness ==
    /\ Len(svgOverlays) = 1
    /\ IncludesSvg(svgOverlays[1].svgContent)
    /\ svgFile /= Null
    /\ uploadError = Some(InvalidSvgMessage)
    /\ svgPreview = Null
    /\ readers = <<>>

(***************************************************************************)
(* MapLayout: the map is panned and zoomed.                                *)
(***************************************************************************)
MaxPan == 1
MaxShapeCoord == 140  \* shape corners stay within -MaxShapeCoord..MaxShapeCoord
PaneMoves == {Pt(1, 0), Pt(-1, 0), Pt(0, 1)}
PixelOrigins == {Pt(0, 0), Pt(1, 0)}

\* Both listeners on 'move zoom' run: forceUpdate renders MapLayout again and
\* onMapCenterChange sets PlannerApp's mapCenter, whose re-render hands
\* MapLayout a new onUpdateSvgOverlay, so the three gesture effects run again.
ViewportChanged ==
    /\ winListeners' = Register(winListeners, AllEffects, draggingId, resizingId, rotatingId)
    /\ UNCHANGED <<svgOverlays, role, gestureVars, fixVars>>
    /\ UNCHANGED <<drawVars, shapeVars, dataVars, uploadVars, store, createdIds>>

\* The map is dragged or panned: the map pane moves by d pixels; the pixel
\* origin stays.
MapPan(d) ==
    /\ mapPanePos.x + d.x \in -MaxPan..MaxPan
    /\ mapPanePos.y + d.y \in -MaxPan..MaxPan
    /\ mapPanePos' = Pt(mapPanePos.x + d.x, mapPanePos.y + d.y)
    /\ UNCHANGED <<zoom, pixelOrigin>>
    /\ ViewportChanged

\* The zoom level is set: the view is reset, which puts the map pane back
\* and takes a new pixel origin (it depends on the centre of the view).
MapZoom(z, origin) ==
    /\ z /= zoom
    /\ zoom' = z
    /\ pixelOrigin' = origin
    /\ mapPanePos' = Pt(0, 0)
    /\ ViewportChanged

\* left and top of an overlay's div in the wrapper of the map container
OverlayLeftTop(o) == latLngToLayerPoint(o.position)

NextView ==
    \/ \E c \in MapCenters : AddOverlay(c)
    \/ \E e \in GesturePointers, id \in OverlayIds : handleSvgMouseDown(e, id)
    \/ \E e \in GesturePointers : WindowMouseMove(e)
    \/ WindowMouseUp
    \/ \E id \in OverlayIds : handleFixOverlay(id)
    \/ \E d \in PaneMoves : MapPan(d)
    \/ \E z \in ZoomLevels, o \in PixelOrigins : MapZoom(z, o)

SpecView == Init /\ [][NextView]_vars

\* C20: after every pan or zoom, every overlay (fixed or not) is rendered at
\* the screen position obtained by projecting its current geographic anchor
\* through the current viewport.
C20_OverlaysRenderedAtProjectedAnchor ==
    \A i \in DOMAIN svgOverlays :
        OverlayLeftTop(svgOverlays[i]) = latLngToContainerPoint(svgOverlays[i].position)

\* C21: fixing is irreversible: an id that handleFixOverlay has added to the
\* fixed set is in the fixed set in every later state; no step removes an id
\* from the fixed set.
C21_FixedStaysFixed ==
    [][ \A id \in fixedOverlays : id \in fixedOverlays' ]_vars

\* An overlay was fixed and the role was switched afterwards.
C21_Witness ==
    /\ fixedOverlays /= {}
    /\ role = "Client"

(***************************************************************************)
(* Properties of the shape-canvas editors.                                 *)
(***************************************************************************)
\* The shapes whose bounding box contains e.
ShapesAt(shs, e) == {i \in DOMAIN shs : Contains(shs[i], e)}
\* Every shape has an id of its own, none of them empty.
DistinctShapeIds(shs) ==
    /\ \A i \in DOMAIN shs : shs[i].id /= ""
    /\ \A i, j \in DOMAIN shs : i /= j => shs[i].id /= shs[j].id

\* C22: when the point of a select-tool click lies inside the bounding boxes
\* of several shapes, the click selects the one drawn last among them.
C22_SelectClickPicksLastDrawn ==
    [][ \A e \in ClickPoints :
          ( /\ currentTool = "select"
            /\ DistinctShapeIds(shapes)
            /\ Cardinality(ShapesAt(shapes, e)) >= 2
            /\ handleCanvasClick(e, "a") )
          => selectedShapeId' = Some(shapes[TopShapeAt(shapes, e)].id) ]_vars

(***************************************************************************)
(* The shape-canvas editors: pointer moves of a gesture.                   *)
(***************************************************************************)
MovePoints == {Pt(0, 0), Pt(60, 70)}
MoveTools == {"select", "square"}

\* shape => shape.id === selectedShapeId ? f(shape) : shape, mapped over prev
MapSelected(shs, f(_)) ==
    [i \in DOMAIN shs |->
        IF selectedShapeId /= Null /\ shs[i].id = Val(selectedShapeId) THEN f(shs[i]) ELSE shs[i]]

\* The drag branch and the resize branch of DrawingToolsPanel's
\* handleMouseMove; both run when both flags are set.
DragTo(e, sh) ==
    [sh EXCEPT !.x = MaxOf(0, e.x - Val(dragStart).x), !.y = MaxOf(0, e.y - Val(dragStart).y)]
MutResizeUnclamped(e, sh) ==
    [sh EXCEPT !.width = Val(shapeResizeStart).width + (e.x - Val(shapeResizeStart).x),
               !.height = Val(shapeResizeStart).height + (e.y - Val(shapeResizeStart).y)]
ResizeTo(e, sh) ==
    [sh EXCEPT !.width = MaxOf(20, Val(shapeResizeStart).width + (e.x - Val(shapeResizeStart).x)),
               !.height = MaxOf(20, Val(shapeResizeStart).height + (e.y - Val(shapeResizeStart).y))]
\* The move of LayoutDrawingPanel and CompactLayoutEditor: by the distance
\* from the last pointer position.
MoveBy(e, sh) ==
    [sh EXCEPT !.x = sh.x + (e.x - Val(dragStart).x), !.y = sh.y + (e.y - Val(dragStart).y)]

\* One call of handleMouseMove on the shapes prev: the flags, the start values
\* and the selected id are those of the render that made the callback, the
\* shapes are those the updater receives.
MovedShapes(prev, e) ==
    IF panel = "DrawingToolsPanel"
    THEN LET dragged == IF isDragging /\ dragStart /= Null /\ Truthy(selectedShapeId)
                        THEN MapSelected(prev, LAMBDA sh : DragTo(e, sh))
                        ELSE prev
         IN  IF isResizing /\ shapeResizeStart /= Null /\ Truthy(selectedShapeId)
             THEN MapSelected(dragged, LAMBDA sh : ResizeTo(e, sh))
             ELSE dragged
    ELSE IF isDragging /\ dragStart /= Null /\ Truthy(selectedShapeId)
         THEN MapSelected(prev, LAMBDA sh : MoveBy(e, sh))
         ELSE prev
\* setDragStart({ x, y }) of that call: LayoutDrawingPanel and
\* CompactLayoutEditor store the pointer, DrawingToolsPanel stores nothing.
MovedDragStart(e) ==
    IF panel /= "DrawingToolsPanel" /\ isDragging /\ dragStart /= Null /\ Truthy(selectedShapeId)
    THEN Some(e) ELSE dragStart

\* handleMouseMove, the document listener registered while a gesture is on.
ShapeMouseMove(e) ==
    /\ isDragging \/ isResizing
    /\ shapes' = MovedShapes(shapes, e)
    /\ dragStart' = MovedDragStart(e)
    /\ UNCHANGED <<panel, currentTool, selectedShapeId, isDragging, isResizing,
                   shapeResizeStart, canvasPoints>>
    /\ UNCHANGED <<role, engineVars, drawVars, otherExt, store, createdIds>>

\* Stamping squares and the gestures on them.
NextShapeMove ==
    \/ \E t \in MoveTools : setCurrentTool(t)
    \/ \E e \in ClickPoints, id \in ShapeIds :
          currentTool \in MoveTools /\ handleCanvasClick(e, id)
    \/ \E e \in ClickPoints, i \in DOMAIN shapes : handleMouseDown(e, i)
    \/ \E i \in DOMAIN shapes : handleResizeHandleMouseDown(i)
    \/ \E e \in MovePoints : ShapeMouseMove(e)
    \/ ShapeMouseUp

SpecShapeMove == InitShape /\ [][NextShapeMove]_vars

\* The shapes selectedShapeId names.
SelectedById == {i \in DOMAIN shapes : selectedShapeId /= Null /\ shapes[i].id = Val(selectedShapeId)}

\* C23: in DrawingToolsPanel every pointer move of a resize gesture sets the
\* selected shape's width to max(20, startWidth + dx) and its height to
\* max(20, startHeight + dy), with the start values and dx, dy taken from the
\* press on the resize handle; both are at least 20 afterwards, and no other
\* shape's size changes.
C23_ResizeMoveSetsClampedSize ==
    [][ \A e \in MovePoints :
          ( /\ panel = "DrawingToolsPanel"
            /\ isResizing /\ shapeResizeStart /= Null
            /\ ShapeMouseMove(e) )
          => /\ Cardinality(SelectedById) = 1
             /\ \A i \in SelectedById :
                   /\ shapes'[i].width =
                        MaxOf(20, Val(shapeResizeStart).width + (e.x - Val(shapeResizeStart).x))
                   /\ shapes'[i].height =
                        MaxOf(20, Val(shapeResizeStart).height + (e.y - Val(shapeResizeStart).y))
                   /\ shapes'[i].width >= 20 /\ shapes'[i].height >= 20
             /\ \A i \in DOMAIN shapes \ SelectedById :
                   /\ shapes'[i].width = shapes[i].width
                   /\ shapes'[i].height = shapes[i].height ]_vars

\* C24: in each shape-canvas editor, whenever a shape is selected the eraser
\* action can be performed, and performing it removes exactly the selected
\* shape (the other shapes and the drawing points unchanged) and leaves no
\* shape selected.
C24_EraserAvailableAndExact ==
    [][ /\ Truthy(selectedShapeId) => EraserVisible
        /\ (DistinctShapeIds(shapes) /\ handleEraser)
             => /\ \E i \in DOMAIN shapes :
                     /\ shapes[i].id = Val(selectedShapeId)
                     /\ shapes' = [j \in 1..(Len(shapes) - 1) |->
                                      IF j < i THEN shapes[j] ELSE shapes[j + 1]]
                /\ canvasPoints' = canvasPoints
                /\ selectedShapeId' = Null ]_vars

\* C25: when the update started by handleSaveChanges takes effect, the layout
\* list equals the list as it was immediately before with the record of the
\* matching id replaced, whatever creates and deletes happened since the
\* Save click.
C25_UpdateReplacesOnlyMatchingRecord ==
    [][ FormTimerFires
        => layouts' = [i \in DOMAIN layouts |->
                          IF layouts[i].id = Head(formTimers).updatedLayout.id
                          THEN Head(formTimers).updatedLayout
                          ELSE layouts[i]] ]_vars

GrowsAtEnd(old, new, pts) == \E p \in pts : new = Append(old, p)

\* C27: a map click adds a point only in the Drawing state.  A step that
\* makes a buffer longer starts in the Drawing state of that component, puts
\* one clicked point at the end of the buffer with the earlier points in
\* place, and changes neither the selected layout nor the selected plot.  A
\* map click while drawing appends its coordinate; a map click while not
\* drawing leaves the buffer as it was and clears the selection, which in
\* LayoutEditor it does with the select tool only.
C27_MapClickAddsPointOnlyWhileDrawing ==
    [][ /\ Len(drawingPoints') > Len(drawingPoints)
           => /\ isDrawing
              /\ GrowsAtEnd(drawingPoints, drawingPoints', MapPoints)
              /\ UNCHANGED <<selectedLayout, selectedPlot, layouts>>
        /\ Len(edDrawingPoints') > Len(edDrawingPoints)
           => /\ edIsDrawing /\ tool = "draw"
              /\ GrowsAtEnd(edDrawingPoints, edDrawingPoints', EditorPoints)
              /\ UNCHANGED <<selectedLayout, selectedPlot, layouts>>
        /\ \A p \in MapPoints :
              handleMapClick(p)
              => IF isDrawing
                 THEN /\ drawingPoints' = Append(drawingPoints, p)
                      /\ UNCHANGED <<selectedLayout, isDrawing>>
                 ELSE /\ drawingPoints' = drawingPoints
                      /\ selectedLayout' = Null
                      /\ UNCHANGED <<layouts, isDrawing, store>>
        /\ \A p \in EditorPoints :
              EditorMapClick(p)
              => IF edIsDrawing
                 THEN /\ edDrawingPoints' = Append(edDrawingPoints, p)
                      /\ UNCHANGED <<selectedPlot, edIsDrawing, tool>>
                 ELSE /\ edDrawingPoints' = edDrawingPoints
                      /\ selectedPlot' = IF tool = "select" THEN Null ELSE selectedPlot
                      /\ UNCHANGED <<edLayout, edIsDrawing, tool, store>> ]_vars

\* two different points clicked while drawing, held in click order, with a
\* layout still selected
C27_Witness ==
    /\ isDrawing
    /\ drawingPoints = <<LatLng(1, 2), LatLng(1, 1)>>
    /\ selectedLayout /= Null

\* The Drawing state of each component: MapLayout draws while isDrawing,
\* LayoutEditor, while it is mounted, when its tool is draw and its
\* isDrawing is set.
MapLayoutDrawing == isDrawing
LayoutEditorDrawing == Editing /\ tool = "draw" /\ edIsDrawing

\* C28: in MapLayout and in LayoutEditor the point buffer is empty whenever
\* the component is not in the Drawing state, and so every step that enters
\* the Drawing state (handleDrawClick, handleToolSelect('draw')) enters it
\* with an empty buffer.
C28_BufferEmptyOutsideDrawing ==
    /\ []( /\ ~MapLayoutDrawing => drawingPoints = <<>>
           /\ ~LayoutEditorDrawing => edDrawingPoints = <<>> )
    /\ [][ /\ (~MapLayoutDrawing /\ MapLayoutDrawing') => drawingPoints' = <<>>
           /\ (~LayoutEditorDrawing /\ LayoutEditorDrawing') => edDrawingPoints' = <<>> ]_vars

\* a finish with three points has run: the layout is in the list, the
\* component is back in Idle and its buffer is empty
C28_Witness ==
    /\ ~MapLayoutDrawing
    /\ lastEvent = "finish"
    /\ Len(layouts) = 1
    /\ Len(layouts[1].latlngs) = 3
    /\ drawingPoints = <<>>

\* startDrawing, addPoint and cancel of the two drawing components
StartDrawingStep == handleDrawClick \/ (~LayoutEditorDrawing /\ handleToolSelect("draw"))
AddPointStep ==
    \/ \E p \in MapPoints : MapLayoutDrawing /\ handleMapClick(p)
    \/ \E p \in EditorPoints : LayoutEditorDrawing /\ EditorMapClick(p)
CancelStep == handleCancelClick \/ EditorCancelClick

\* C29: the points being drawn stay in the drawing component until commit.
\* startDrawing, addPoint and cancel change neither the layout list, nor the
\* selected layout, nor the layout under edit, nor the persisted store; of
\* the steps of the drawing machines only a finish of MapLayout with at least
\* three buffered points changes the layout list, and it appends the layout
\* built from the buffer; the store changes only with the list.
C29_BufferOwnedUntilCommit ==
    [][ /\ (StartDrawingStep \/ AddPointStep \/ CancelStep)
           => UNCHANGED <<layouts, selectedLayout, editingLayout, store>>
        /\ layouts' /= layouts
           => /\ MapLayoutDrawing /\ Len(drawingPoints) >= 3
              /\ FinishClick
              /\ layouts' = Append(layouts, NewLayout(drawingPoints))
        /\ store' /= store => layouts' /= layouts ]_vars

\* a second session in progress: two points are buffered while the list, the
\* selection and the store still hold the layout committed by the first
C29_Witness ==
    /\ MapLayoutDrawing
    /\ Len(drawingPoints) = 2
    /\ Len(layouts) = 1
    /\ selectedLayout = Some(layouts[1])
    /\ store = Some(Stringify(layouts))

(***************************************************************************)
(* The frame of the overlay gestures.                                      *)
(***************************************************************************)
\* Between this state and the next, at most the attribute attr of the
\* overlay id has changed: every other overlay and every other field of that
\* overlay are as they were, in the same order.
OnlyChanged(id, attr) ==
    /\ Len(svgOverlays') = Len(svgOverlays)
    /\ \A i \in DOMAIN svgOverlays :
          IF svgOverlays[i].id = id
          THEN [svgOverlays'[i] EXCEPT ![attr] = svgOverlays[i][attr]] = svgOverlays[i]
          ELSE svgOverlays'[i] = svgOverlays[i]

PointerDownStep ==
    \/ \E e \in GesturePointers, id \in OverlayIds : handleSvgMouseDown(e, id)
    \/ \E e \in ResizeHandlePointers, id \in OverlayIds : handleResizeMouseDown(e, id)
    \/ \E e \in RotateHandlePointers, id \in OverlayIds : handleRotateMouseDown(e, id)

\* C30: each overlay gesture changes only its own attribute of its target
\* overlay.  A pointer move of a drag changes at most the target's position,
\* of a resize at most its scale, of a rotate at most its rotation; every
\* other overlay, the ids, the contents, the order and the number of the
\* overlays stay as they were; pointer-down and pointer-up change no overlay.
C30_GestureChangesOnlyItsAttribute ==
    [][ /\ (PointerDownStep \/ WindowMouseUp) => svgOverlays' = svgOverlays
        /\ \A e \in GesturePointers :
              WindowMouseMove(e)
              => /\ draggingId /= Null => OnlyChanged(Val(draggingId), "position")
                 /\ resizingId /= Null => OnlyChanged(Val(resizingId), "scale")
                 /\ rotatingId /= Null => OnlyChanged(Val(rotatingId), "rotation") ]_vars

(***************************************************************************)
(* The rotate gesture and the values it captures at pointer-down.          *)
(***************************************************************************)
\* C31: the rotation of a rotate gesture is computed from the values taken
\* at pointer-down and is not accumulated.  The pointer-down stores the
\* overlay's rotation and the pointer; the moves leave what it stored; every
\* move sets the rotation to the normalised sum of the stored rotation and
\* the angle turned since pointer-down; and a move that brings the pointer
\* back to where it went down gives the overlay the rotation it had at
\* pointer-down.
C31_RotateFromPointerDownValues ==
    [][ /\ \A e \in RotatePointers, id \in OverlayIds :
              handleRotateMouseDown(e, id)
              => /\ rotateInitialRotation' = Some(OverlayOf(id).rotation)
                 /\ rotateStartMouse' = Some(e)
        /\ \A e \in RotatePointers :
              (WindowMouseMove(e) /\ rotatingId /= Null)
              => /\ UNCHANGED <<rotatingId, rotateStartAngle, rotateStartMouse, rotateInitialRotation>>
                 /\ OverlayOf(Val(rotatingId))'.rotation
                      = RotateAngle(Val(rotateInitialRotation), Val(rotateStartAngle),
                                    latLngToLayerPoint(OverlayOf(Val(rotatingId)).position), e)
                 /\ rotateStartMouse = Some(e)
                    => OverlayOf(Val(rotatingId))'.rotation = Val(rotateInitialRotation) ]_vars

(***************************************************************************)
(* The shape drag when the listener is not renewed between two moves.      *)
(***************************************************************************)
\* The part of the canvas plane the model explores.
InShapeRange(shs) ==
    \A i \in DOMAIN shs : /\ shs[i].x \in -MaxShapeCoord..MaxShapeCoord
                          /\ shs[i].y \in -MaxShapeCoord..MaxShapeCoord

\* Two mousemove events reach the document before the effect has replaced
\* the listener: both run the callback of the same render, so both read the
\* same dragStart and selected id, and their updaters and the two
\* setDragStart calls are applied in order.
ShapeMouseMoveTwice(e1, e2) ==
    /\ isDragging \/ isResizing
    /\ shapes' = MovedShapes(MovedShapes(shapes, e1), e2)
    /\ InShapeRange(shapes')
    /\ dragStart' = MovedDragStart(e2)
    /\ UNCHANGED <<panel, currentTool, selectedShapeId, isDragging, isResizing,
                   shapeResizeStart, canvasPoints>>
    /\ UNCHANGED <<role, engineVars, drawVars, otherExt, store, createdIds>>

\* Stamping squares and dragging them, the listener renewed after a move or not.
NextShapeDrag ==
    \/ \E t \in MoveTools : setCurrentTool(t)
    \/ \E e \in ClickPoints, id \in ShapeIds :
          currentTool \in MoveTools /\ handleCanvasClick(e, id)
    \/ \E e \in ClickPoints, i \in DOMAIN shapes : handleMouseDown(e, i)
    \/ \E e \in MovePoints : ShapeMouseMove(e) /\ InShapeRange(shapes')
    \/ \E e1, e2 \in MovePoints : ShapeMouseMoveTwice(e1, e2)
    \/ ShapeMouseUp

SpecShapeDrag == InitShape /\ [][NextShapeDrag]_vars

\* A step of a drag that ends with the pointer at e.
DragMoveTo(e) == ShapeMouseMove(e) \/ \E e1 \in MovePoints : ShapeMouseMoveTwice(e1, e)

\* Where a translation by the pointer's displacement puts the shape sh when
\* the pointer has come to e: LayoutDrawingPanel and CompactLayoutEditor keep
\* the pointer's last position in dragStart, DrawingToolsPanel keeps the
\* pointer's offset from the shape's corner at pointer-down.
TranslatedTo(sh, e) ==
    IF panel = "DrawingToolsPanel"
    THEN Pt(e.x - Val(dragStart).x, e.y - Val(dragStart).y)
    ELSE Pt(sh.x + (e.x - Val(dragStart).x), sh.y + (e.y - Val(dragStart).y))

\* C32: a shape drag translates the shape by the pointer's displacement.
\* After every step of a drag, with the listener renewed between two moves or
\* not, the dragged shape is where it was at the previous pointer position
\* plus the pointer's displacement since then (so, over the gesture, at its
\* position at pointer-down plus current pointer minus pointer at
\* pointer-down), exactly one shape is the dragged one, and every other shape
\* is unchanged.
C32_ShapeDragIsDeltaTranslation ==
    [][ \A e \in MovePoints :
          (isDragging /\ dragStart /= Null /\ DragMoveTo(e))
          => /\ Cardinality(SelectedById) = 1
             /\ \A i \in SelectedById :
                   Pt(shapes'[i].x, shapes'[i].y) = TranslatedTo(shapes[i], e)
             /\ \A i \in DOMAIN shapes \ SelectedById : shapes'[i] = shapes[i] ]_vars

(***************************************************************************)
(* LayoutEditor with the PlotEditor form of the selected plot.             *)
(***************************************************************************)
PlotPoints == {LatLng(1, 1), LatLng(1, 2)}      \* e.latlng of a click on the editor map
PlotNumbers == {<<"A-1">>}                      \* a text typed into the plot number field

\* The auto-save effect of PlotEditor after the form became f: the timeout
\* of the previous form is cleared and a new one is set, which calls
\* handleSaveChanges when the form differs from the plot.
AutoSaveTimer(f) ==
    IF f /= PlotFormOf(Val(selectedPlot))
    THEN Some([plot |-> Val(selectedPlot), formData |-> f])
    ELSE Null

plotFormFrame == <<role, engineVars, extVars, store, createdIds, hostVars, mapDrawVars,
                   tool, isSaving, edIsDrawing, edDrawingPoints, saveTimers, plotIds>>

\* PlotEditor's handleInputChange and handleStatusChange.
handlePlotInputChange(value) ==
    /\ Editing /\ selectedPlot /= Null
    /\ plotForm' = [plotForm EXCEPT !.plotNumber = value]
    /\ plotTimer' = AutoSaveTimer(plotForm')
    /\ lastEvent' = "other"
    /\ UNCHANGED <<edLayout, selectedPlot, plotFormFrame>>

handlePlotStatusChange(newStatus) ==
    /\ Editing /\ selectedPlot /= Null
    /\ plotForm' = [plotForm EXCEPT !.status = newStatus]
    /\ plotTimer' = AutoSaveTimer(plotForm')
    /\ lastEvent' = "other"
    /\ UNCHANGED <<edLayout, selectedPlot, plotFormFrame>>

\* handleUpdatePlot's updater: prev.plots.map(p => p.id === updatedPlot.id ? updatedPlot : p)
MutUpdatePlotOverwritesAll(plots, updatedPlot) == [i \in DOMAIN plots |-> updatedPlot]
handleUpdatePlot(plots, updatedPlot) ==
    [i \in DOMAIN plots |-> IF plots[i].id = updatedPlot.id THEN updatedPlot ELSE plots[i]]

\* The auto-save timeout fires: handleSaveChanges of the render that set it,
\* onUpdate({ ...plot, ...formData }), then the [plot] effect for the new record.
PlotTimerFires ==
    /\ Editing /\ plotTimer /= Null
    /\ LET t == Val(plotTimer)
           updatedPlot == [t.plot EXCEPT !.plotNumber = t.formData.plotNumber,
                                         !.status = t.formData.status]
       IN  /\ edLayout' = Some([Val(edLayout) EXCEPT !.plots = handleUpdatePlot(@, updatedPlot)])
           /\ selectedPlot' = Some(updatedPlot)
           /\ plotForm' = PlotFormOf(updatedPlot)
    /\ plotTimer' = Null
    /\ lastEvent' = "plotsave"
    /\ UNCHANGED plotFormFrame

\* One layout under edit: select it, open the editor, draw, erase and edit
\* plots, leave.
NextEditor ==
    \/ \E i \in DOMAIN layouts : handleLayoutSelect(i)
    \/ handleEnterEditor
    \/ handleExitEditor
    \/ \E t \in Tools : handleToolSelect(t)
    \/ \E p \in PlotPoints : EditorMapClick(p)
    \/ \E i \in DOMAIN (IF Editing THEN Val(edLayout).plots ELSE <<>>) : PlotClick(i)
    \/ EditorFinishClick
    \/ EditorCancelClick
    \/ \E v \in PlotNumbers : handlePlotInputChange(v)
    \/ \E st \in ExploredStatuses : handlePlotStatusChange(st)
    \/ PlotTimerFires

\* PlannerApp started with one stored layout.
InitEditor == InitData /\ layouts = <<StoredLayout(2)>>

SpecEditor == InitEditor /\ [][NextEditor]_vars

(***************************************************************************)
(* Properties of LayoutEditor's plots.                                     *)
(***************************************************************************)
edPlots == Val(edLayout).plots

\* C33: in LayoutEditor a finish with at least three buffered points appends
\* exactly one plot to the layout under edit; its boundary is the buffer, in
\* order, and its status is Available; the plots the layout had are
\* unchanged; the new plot is the selected one, the tool is select, the
\* editor is not drawing and the buffer is empty.
C33_FinishAppendsOnePlot ==
    [][ (Editing /\ Len(edDrawingPoints) >= 3 /\ EditorFinishClick)
        => /\ Len(edPlots') = Len(edPlots) + 1
           /\ SubSeq(edPlots', 1, Len(edPlots)) = edPlots
           /\ edPlots'[Len(edPlots')].latlngs = edDrawingPoints
           /\ edPlots'[Len(edPlots')].status = "Available"
           /\ \A k \in DOMAIN edPlots : edPlots[k].id /= edPlots'[Len(edPlots')].id
           /\ [Val(edLayout') EXCEPT !.plots = edPlots] = Val(edLayout)
           /\ selectedPlot' = Some(edPlots'[Len(edPlots')])
           /\ tool' = "select"
           /\ ~edIsDrawing'
           /\ edDrawingPoints' = <<>>
           /\ UNCHANGED layouts ]_vars

\* the second plot of a layout has just been finished: its boundary is the
\* three clicked points in click order, and it is the selected plot
C33_Witness ==
    /\ Editing /\ lastEvent = "edfinish" /\ ~edIsDrawing
    /\ Len(edPlots) = 2
    /\ edPlots[2].latlngs = <<LatLng(1, 2), LatLng(1, 1), LatLng(1, 1)>>
    /\ selectedPlot = Some(edPlots[2])
    /\ tool = "select"

\* C34: in LayoutEditor a click on a plot removes it only with the erase
\* tool.  With the erase tool the clicked plot, and no other, leaves the
\* layout under edit and no plot is selected afterwards; with the select tool
\* the clicked plot becomes the selected plot and the plots are unchanged;
\* with the draw tool neither the plots nor the selection change.  No step
\* of the editor makes the plot list shorter unless the tool is erase.
C34_PlotClickErasesOnlyWithEraseTool ==
    [][ Editing =>
          /\ \A i \in DOMAIN edPlots :
                PlotClick(i)
                => IF tool = "erase"
                   THEN /\ edPlots' = WithoutIndex(edPlots, i)
                        /\ selectedPlot' = Null
                   ELSE IF tool = "select"
                   THEN /\ selectedPlot' = Some(edPlots[i])
                        /\ edPlots' = edPlots
                   ELSE UNCHANGED <<edLayout, selectedPlot>>
          /\ (Editing' /\ Len(edPlots') < Len(edPlots)) => tool = "erase" ]_vars

\* the first of two plots has been erased: the second is still there and no
\* plot is selected
C34_Witness ==
    /\ Editing /\ tool = "erase"
    /\ plotIds = 2
    /\ Len(edPlots) = 1 /\ edPlots[1].id = 2
    /\ selectedPlot = Null

\* The plot of the layout under edit that has the id of plot, if there is one.
OwnersOf(plot) == {k \in DOMAIN edPlots : edPlots[k].id = plot.id}

\* C35: plot detail edits are saved by a debounced timeout.  A pending
\* timeout always carries the latest form and the selected plot, which is a
\* plot of the layout under edit, so a form change replaces the pending edit
\* and deselecting, erasing or replacing the selected plot leaves none
\* pending; the number or status of a plot changes only in the step in which
\* the timeout fires, that step gives the form's values to the plot that
\* owns the form and leaves every other plot as it was.
C35_PlotEditsAreDebounced ==
    /\ []( plotTimer /= Null
           => /\ Editing /\ selectedPlot /= Null
              /\ Val(plotTimer).plot = Val(selectedPlot)
              /\ Val(plotTimer).formData = plotForm
              /\ Cardinality(OwnersOf(Val(selectedPlot))) = 1 )
    /\ [][ /\ (Editing /\ Editing' /\ selectedPlot' /= selectedPlot /\ ~PlotTimerFires)
               => plotTimer' = Null
           /\ (Editing /\ Editing' /\ Len(edPlots') = Len(edPlots)
               /\ \E k \in DOMAIN edPlots : edPlots'[k] /= edPlots[k])
               => /\ PlotTimerFires
                  /\ \A k \in DOMAIN edPlots :
                        edPlots'[k] = IF k \in OwnersOf(Val(plotTimer).plot)
                                      THEN [edPlots[k] EXCEPT
                                              !.plotNumber = Val(plotTimer).formData.plotNumber,
                                              !.status = Val(plotTimer).formData.status]
                                      ELSE edPlots[k] ]_vars

\* the auto-save of the first of two plots has fired: it is Sold, the other
\* plot is as it was drawn
C35_Witness ==
    /\ Editing /\ lastEvent = "plotsave"
    /\ Len(edPlots) = 2
    /\ edPlots[1].status = "Sold" /\ edPlots[2].status = "Available"
    /\ selectedPlot = Some(edPlots[1])
    /\ plotTimer = Null

\* ---------------------------------------------------------------------
\* PlannerApp with the details form and the layout editor together: the
\* form's controls exist only while the editor is closed.
NextPlanner ==
    \/ \E i \in DOMAIN layouts : ~Editing /\ onLayoutSelect(i)
    \/ ~Editing /\ onClose
    \/ \E st \in ExploredStatuses : ~Editing /\ handleStatusChange(st)
    \/ ~Editing /\ handleSaveChanges
    \/ FormTimerFires
    \/ \E i \in DOMAIN layouts, confirmed \in BOOLEAN : ~Editing /\ handleLayoutDelete(i, confirmed)
    \/ handleEnterEditor
    \/ handleExitEditor
    \/ \E t \in Tools : handleToolSelect(t)
    \/ \E p \in EditorPoints : EditorMapClick(p)
    \/ \E i \in DOMAIN (IF Editing THEN Val(edLayout).plots ELSE <<>>) : PlotClick(i)
    \/ EditorFinishClick
    \/ EditorCancelClick
    \/ handleSaveAndExit
    \/ SaveTimerFires

SpecPlanner == InitEditor /\ [][NextPlanner]_vars

\* C36: a details-form save (the continuation of handleSaveChanges calling
\* handleLayoutUpdate) leaves the boundary and the plots of the saved layout's
\* list record as they were immediately before it.
C36_FormSaveKeepsBoundaryAndPlots ==
    [][FormTimerFires =>
         \A i \in DOMAIN layouts :
            layouts[i].id = Head(formTimers).updatedLayout.id =>
               \E j \in DOMAIN layouts' :
                  /\ layouts'[j].id = layouts[i].id
                  /\ layouts'[j].latlngs = layouts[i].latlngs
                  /\ layouts'[j].plots = layouts[i].plots]_vars
\* the same with the editor's save never taken between select and form save
C36_HoldsWhenRecordIsCurrent ==
    [][(FormTimerFires /\ \E i \in DOMAIN layouts :
                             /\ layouts[i].latlngs = Head(formTimers).updatedLayout.latlngs
                             /\ layouts[i].plots = Head(formTimers).updatedLayout.plots
                             /\ layouts[i].id = Head(formTimers).updatedLayout.id) =>
         \A i \in DOMAIN layouts :
            layouts[i].id = Head(formTimers).updatedLayout.id =>
               \E j \in DOMAIN layouts' :
                  /\ layouts'[j].id = layouts[i].id
                  /\ layouts'[j].latlngs = layouts[i].latlngs
                  /\ layouts'[j].plots = layouts[i].plots]_vars

\* C37: once handleExitEditor has closed the editor, the session that was
\* left does not change the layout list: a Save & Exit still waiting for its
\* 500 ms when the exit happens leaves the list alone when it resumes.
C37_ExitedEditorNeverChangesList ==
    [][(SaveTimerFires /\ ~Editing) => layouts' = layouts]_vars
\* while the editor is open the list changes only by the resumed Save & Exit
\* or by a form save started before the editor was opened
C37_EditsReachListOnlyThroughSave ==
    [][(Editing /\ layouts' /= layouts) => (SaveTimerFires \/ FormTimerFires)]_vars
\* Save & Exit does nothing when the plots equal the initial plots
C37_SaveOnlyWithChanges ==
    [][handleSaveAndExit => Val(edLayout).plots /= Val(editingLayout).plots]_vars

\* C38: a non-null selectedLayout equals a record of the layout list.
C38_SelectedLayoutIsLive ==
    selectedLayout /= Null =>
        \E i \in DOMAIN layouts : layouts[i] = Val(selectedLayout)
\* the same for the id alone
C38_SelectedIdIsLive ==
    selectedLayout /= Null =>
        \E i \in DOMAIN layouts : layouts[i].id = Val(selectedLayout).id

\* C39: when PlannerApp starts over a persisted non-empty list, the store
\* holds that list in every state from the first commit on, as long as no
\* operation has changed the list: between the first commit and the commit
\* of the loaded list, and after that commit.
LoadedPersisted == phase = "loading" /\ loaded /= Null /\ Len(Val(loaded)) > 0
C39_PersistedListStaysThroughStartup ==
    /\ [](LoadedPersisted => store = Some(Stringify(Val(loaded))))
    /\ [][(LoadCommit /\ LoadedPersisted) => store' = Some(Stringify(Val(loaded)))]_vars
\* with the storage writable at the commit of the loaded list the store
\* holds the list again after it
C39_RestoredWhenWritable ==
    [][(LoadCommit /\ LoadedPersisted /\ storage = "ok") =>
          store' = Some(Stringify(Val(loaded)))]_vars

\* C40: in every state of a shape-canvas editor at most one shape is marked
\* selected, a shape is marked exactly when its id is selectedShapeId, and
\* a non-null selectedShapeId is the id of a shape of the collection.
FlagsAgreeWithSelection ==
    \A i \in DOMAIN shapes : shapes[i].isSelected <=> selectedShapeId = Some(shapes[i].id)
SelectionExists ==
    selectedShapeId /= Null => \E i \in DOMAIN shapes : shapes[i].id = Val(selectedShapeId)
C40_FlagsAgreeWithSelectedShapeId ==
    /\ Cardinality(SelectedShapes(shapes)) <= 1
    /\ FlagsAgreeWithSelection
    /\ SelectionExists
\* the ids of the shapes are non-empty and pairwise distinct
ShapeIdsProper ==
    \A i \in DOMAIN shapes :
        shapes[i].id /= "" /\ \A j \in DOMAIN shapes : shapes[i].id = shapes[j].id => i = j
\* the same in DrawingToolsPanel alone, whose pointer-down marks the shape,
\* over collections with proper ids
C40_HoldsInDrawingToolsPanel ==
    (panel = "DrawingToolsPanel" /\ ShapeIdsProper) => C40_FlagsAgreeWithSelectedShapeId
\* in the other two editors the selection exists and at most one shape is marked
C40_SelectionExistsWithProperIds ==
    ShapeIdsProper => (SelectionExists /\ Cardinality(SelectedShapes(shapes)) <= 1)
====
